---------------------------- MODULE Spec2Model ----------------------------
(***************************************************************************)
(* Inspection checklist application: the in-memory document               *)
(* (InspectionProfile -> sections -> items) with the handlers of App that *)
(* mutate it, and the persistence gateway (saveReportToSupabase /         *)
(* loadReportFromSupabase) over the remote table and the localStorage     *)
(* fallback.                                                              *)
(*                                                                         *)
(* Strings the program concatenates (item notes) are sequences of text    *)
(* chunks, the empty string being << >>.  A field that is undefined in    *)
(* the program holds UNDEF.  Fields of the profile, the sections and the  *)
(* items that no handler ever writes (address, label, title, options ...) *)
(* are left out of the records.                                           *)
(***************************************************************************)
EXTENDS Integers, Sequences, FiniteSets

VARIABLES
    inspection,       \* App state `inspection`: NoProfile or the profile
    activeSectionId,  \* App state `activeSectionId`
    cameraTarget,     \* App state `cameraTarget`: NoTarget or [sectionId, itemId]
    analyzingItemId,  \* App state `analyzingItemId`
    analyses,         \* image analyses in flight: set of [sectionId, itemId]
    isLoading,        \* App state `isLoading`
    pending,          \* the handler awaiting a generation-service answer
    now,              \* the value Date.now() returned last
    steps,            \* number of handler steps taken so far
    budget,           \* number of handler steps the behaviour may take
    lastCall,         \* the handler that ran last, with its id arguments
    supabase,         \* whether the remote client is configured (`supabase` non-null)
    localStorage,     \* what window.localStorage holds under LOCAL_KEY
    remoteTable,      \* the rows of the remote table `inspections`, by primary key
    save,             \* the call of saveReportToSupabase in flight, or the last one
    savedAs,          \* the keys the first successful save gave the document in memory
    text,             \* the identifier string under the shape test, or being generated
    keyPc,            \* where the string comes from: input, generateShortId, generateUUID
    view,             \* App state `view`
    urlLoad,          \* checkUrlForReport: none (no ?id), mounted, loading, done
    planCall,         \* handleStartInspection: idle, or generating the plan
    auth,             \* handleLogout / handleAuthSuccess calls awaiting authService
    response,         \* what the generation service answered to the call under test
    answer            \* what the function of the generation module returned

docVars == <<inspection, activeSectionId, cameraTarget, analyzingItemId,
             analyses, isLoading, pending, now, steps, budget, lastCall>>

storeVars == <<supabase, localStorage, remoteTable, save, savedAs>>

keyVars == <<text, keyPc>>

appVars == <<view, urlLoad, planCall, auth>>

genVars == <<response, answer>>

\* What neither the save nor the load touches
uiVars == <<activeSectionId, cameraTarget, analyzingItemId, analyses, pending,
            now, budget, view>>

-----------------------------------------------------------------------------
(* Bounds of the model *)

MaxSections == 2
MaxItems == 2
MaxPhotos == 3
MaxNoteLen == 3
MaxClock == 2
MaxSteps == 3
MaxStoreSteps == 9
MaxPhotoSteps == 3
MaxGrowSteps == 4
MaxPlanItems == 1
MaxLongSection == 201
MaxProgressSteps == 1
MaxViewSteps == 9
MaxAsyncSteps == 3
MaxLiveSteps == 6

-----------------------------------------------------------------------------
(* Values *)

UNDEF == "undefined"          \* an undefined string-valued field
UndefId == <<"undefined">>    \* an undefined id (ids are tuples)
NullId == <<"null">>          \* a null id
NoProfile == [null |-> TRUE]  \* `inspection` being null
NoTarget == [null |-> TRUE]   \* `cameraTarget` being null

ItemStatus == {"untouched", "pass", "info", "attention", "moderate", "dangerous"}
SectionStatus == {"pending", "in-progress", "completed"}

Images == {"img1", "img2"}
NoteTexts == {<< >>, <<"n">>}
OptionTexts == {"o1"}
Descriptions == {<< >>, <<"d">>}
AiNotePrefix == "\nAI Note: "

MissingSection == <<"no-such-section">>
MissingItem == <<"no-such-item">>

-----------------------------------------------------------------------------
(* Entities as the generation service builds them *)

NewItem(id) ==
    [id |-> id, status |-> "untouched", notes |-> << >>, photos |-> << >>,
     selectedOption |-> UNDEF, isHidden |-> UNDEF]

\* generateInspectionPlan: section `index` (0-based) with n items, built at time t
PlanSection(index, n, t) ==
    [id |-> <<"section", index, t>>, status |-> "pending", photoUrl |-> UNDEF,
     items |-> [i \in 1..n |-> NewItem(<<"item", index, i - 1>>)]]

\* generateSingleSection: a custom section with n items, built at time t
CustomSection(n, t) ==
    [id |-> <<"section-custom", t>>, status |-> "pending", photoUrl |-> UNDEF,
     items |-> [i \in 1..n |-> NewItem(<<"item-custom", t, i - 1>>)]]

\* generateSectionItems: n new items, built at time t
AddedItems(n, t) == [i \in 1..n |-> NewItem(<<"item-added", t, i - 1>>)]

-----------------------------------------------------------------------------
(* Pure parts of the handlers *)

Truthy(photosOrNotes) == photosOrNotes # << >>

\* !i.isHidden is false only for the value true
IsHidden(item) == item.isHidden = "true"

CountUntouched(items) ==
    Cardinality({k \in DOMAIN items : items[k].status = "untouched"})

\* A faulty variant: a section with a touched item is in-progress, even when
\* no item is left untouched
CalcSectionStatusEager(updatedItems) ==
    IF CountUntouched(updatedItems) < Len(updatedItems) THEN "in-progress"
    ELSE IF Len(updatedItems) = 0 THEN "completed"
    ELSE "pending"

\* updateItemStatus, "Calculate section status"
CalcSectionStatus(updatedItems) ==
    LET total == Len(updatedItems)
        untouched == CountUntouched(updatedItems)
        completed == total - untouched
    IN  IF completed = total THEN "completed"
        ELSE IF completed > 0 THEN "in-progress"
        ELSE "pending"

MapItems(items, itemId, F(_)) ==
    [k \in DOMAIN items |-> IF items[k].id = itemId THEN F(items[k]) ELSE items[k]]

MapSections(prev, sectionId, G(_)) ==
    [prev EXCEPT !.sections =
        [k \in DOMAIN @ |-> IF @[k].id # sectionId THEN @[k] ELSE G(@[k])]]

\* A faulty variant: setting a status clears the notes of the item
SetStatusClearNotes(prev, sectionId, itemId, status) ==
    LET G(sec) ==
            LET F(item) == [item EXCEPT !.status = status, !.notes = << >>]
                updatedItems == MapItems(sec.items, itemId, F)
            IN  [sec EXCEPT !.items = updatedItems,
                            !.status = CalcSectionStatus(updatedItems)]
    IN  MapSections(prev, sectionId, G)

\* updateItemStatus, the state update
SetStatus(prev, sectionId, itemId, status) ==
    LET G(sec) ==
            LET F(item) == [item EXCEPT !.status = status]
                updatedItems == MapItems(sec.items, itemId, F)
            IN  [sec EXCEPT !.items = updatedItems,
                            !.status = CalcSectionStatus(updatedItems)]
    IN  MapSections(prev, sectionId, G)

SetOption(prev, sectionId, itemId, selectedOption) ==
    LET G(sec) ==
            LET F(item) == [item EXCEPT !.selectedOption = selectedOption]
            IN  [sec EXCEPT !.items = MapItems(sec.items, itemId, F)]
    IN  MapSections(prev, sectionId, G)

SetNote(prev, sectionId, itemId, notes) ==
    LET G(sec) ==
            LET F(item) == [item EXCEPT !.notes = notes]
            IN  [sec EXCEPT !.items = MapItems(sec.items, itemId, F)]
    IN  MapSections(prev, sectionId, G)

\* A faulty variant: an item that is hidden loses its status
SetVisibilityAndReset(prev, sectionId, itemId, isHidden) ==
    LET G(sec) ==
            LET F(item) == [item EXCEPT !.isHidden = isHidden,
                                        !.status = IF isHidden = "true" THEN "untouched" ELSE @]
            IN  [sec EXCEPT !.items = MapItems(sec.items, itemId, F)]
    IN  MapSections(prev, sectionId, G)

\* toggleItemVisibility, the state update
SetVisibility(prev, sectionId, itemId, isHidden) ==
    LET G(sec) ==
            LET F(item) == [item EXCEPT !.isHidden = isHidden]
            IN  [sec EXCEPT !.items = MapItems(sec.items, itemId, F)]
    IN  MapSections(prev, sectionId, G)

\* A faulty variant: the items of every section are shown
ShowAllEverywhere(prev, sectionId) ==
    [prev EXCEPT !.sections =
        [k \in DOMAIN @ |->
            [@[k] EXCEPT !.items = [j \in DOMAIN @ |-> [@[j] EXCEPT !.isHidden = "false"]]]]]

\* "Hidden Item Recovery", the state update
ShowAll(prev, sectionId) ==
    LET G(sec) ==
            [sec EXCEPT !.items = [k \in DOMAIN @ |-> [@[k] EXCEPT !.isHidden = "false"]]]
    IN  MapSections(prev, sectionId, G)

\* A faulty variant: the new photo of an item is put first
AddPhotoFirst(prev, target, imageData) ==
    LET G(sec) ==
            IF target.itemId # UndefId
            THEN LET F(item) == [item EXCEPT !.photos = <<imageData>> \o @]
                 IN  [sec EXCEPT !.items = MapItems(sec.items, target.itemId, F)]
            ELSE [sec EXCEPT !.photoUrl = imageData]
    IN  MapSections(prev, target.sectionId, G)

\* handleCapturePhoto, the state update
AddPhoto(prev, target, imageData) ==
    LET G(sec) ==
            IF target.itemId # UndefId
            THEN LET F(item) == [item EXCEPT !.photos = Append(@, imageData)]
                 IN  [sec EXCEPT !.items = MapItems(sec.items, target.itemId, F)]
            ELSE [sec EXCEPT !.photoUrl = imageData]
    IN  MapSections(prev, target.sectionId, G)

\* A faulty variant: the last photo is dropped, whatever the index
FilterOutLast(photos, photoIndex) ==
    IF photos = << >> THEN << >> ELSE SubSeq(photos, 1, Len(photos) - 1)

\* photos.filter((_, idx) => idx !== photoIndex), photoIndex 0-based
FilterOut(photos, photoIndex) ==
    LET keep == {k \in DOMAIN photos : k - 1 # photoIndex}
        Rank(k) == Cardinality({j \in keep : j <= k})
    IN  [r \in 1..Cardinality(keep) |-> photos[CHOOSE k \in keep : Rank(k) = r]]

RemovePhoto(prev, sectionId, itemId, photoIndex) ==
    LET G(sec) ==
            LET F(item) == [item EXCEPT !.photos = FilterOut(@, photoIndex)]
            IN  [sec EXCEPT !.items = MapItems(sec.items, itemId, F)]
    IN  MapSections(prev, sectionId, G)

\* A faulty variant: the description takes the place of the notes
AiNoteReplace(notes, description) == description

\* notes: i.notes ? `${i.notes}\nAI Note: ${description}` : description
AiNote(notes, description) ==
    IF Truthy(notes) THEN notes \o <<AiNotePrefix>> \o description ELSE description

PatchAiNote(prev, sectionId, itemId, description) ==
    LET G(sec) ==
            LET F(item) == [item EXCEPT !.notes = AiNote(@, description)]
            IN  [sec EXCEPT !.items = MapItems(sec.items, itemId, F)]
    IN  MapSections(prev, sectionId, G)

\* A faulty variant: the new section is put first
PrependSection(prev, newSection) ==
    [prev EXCEPT !.sections = <<newSection>> \o @]

\* handleAddSection, the state update
AppendSection(prev, newSection) ==
    [prev EXCEPT !.sections = Append(@, newSection)]

\* A faulty variant: the items of the section are written as they were
\* generated, followed by the new ones
AppendItemsToPlan(prev, sectionId, newItems) ==
    LET G(sec) == [sec EXCEPT !.items = [j \in DOMAIN @ |-> NewItem(@[j].id)] \o newItems]
    IN  MapSections(prev, sectionId, G)

AppendItems(prev, sectionId, newItems) ==
    LET G(sec) == [sec EXCEPT !.items = @ \o newItems]
    IN  MapSections(prev, sectionId, G)

-----------------------------------------------------------------------------
(* What the views compute from the document *)

\* sections.flatMap(s => s.items)
RECURSIVE FlatItems(_)
FlatItems(sections) ==
    IF sections = << >> THEN << >>
    ELSE Head(sections).items \o FlatItems(Tail(sections))

Visible(item) == ~IsHidden(item)
Touched(item) == item.status # "untouched"

\* A faulty variant: the hidden items are counted too
AllItems(doc) == FlatItems(doc.sections)

\* inspection.sections.flatMap(s => s.items).filter(i => !i.isHidden)
VisibleItems(doc) == SelectSeq(FlatItems(doc.sections), Visible)

\* Math.round(n / d) for naturals n and d > 0
RoundDiv(n, d) == (2 * n + d) \div (2 * d)

\* calculateProgress()
CalculateProgress(doc) ==
    IF doc = NoProfile THEN 0
    ELSE LET visibleItems == VisibleItems(doc)
             totalItems == Len(visibleItems)
             completedItems == Len(SelectSeq(visibleItems, Touched))
         IN  IF totalItems = 0 THEN 0
             ELSE RoundDiv(completedItems * 100, totalItems)

\* Dashboard: the button reads "Finalize & Preview Report"
FinalizeOffered(doc) == CalculateProgress(doc) = 100

\* inspection.sections.map(s => ({...s, items: s.items.filter(i => !i.isHidden)}))
VisibleSections(doc) ==
    [k \in DOMAIN doc.sections |->
        [doc.sections[k] EXCEPT !.items = SelectSeq(@, Visible)]]

\* .reduce((acc, s) => acc + s.items.filter(i => statuses.includes(i.status)).length, 0)
RECURSIVE SumItems(_, _)
SumItems(sections, statuses) ==
    IF sections = << >> THEN 0
    ELSE Cardinality({j \in DOMAIN Head(sections).items :
                         Head(sections).items[j].status \in statuses})
         + SumItems(Tail(sections), statuses)

\* .reduce((acc, s) => acc + s.items.length, 0)
RECURSIVE SumLengths(_)
SumLengths(sections) ==
    IF sections = << >> THEN 0
    ELSE Len(Head(sections).items) + SumLengths(Tail(sections))

IssueStatus == {"attention", "moderate", "dangerous"}

\* Inspection Summary: the four figures of the report
TotalItems(doc) == SumLengths(VisibleSections(doc))
Passed(doc) == SumItems(VisibleSections(doc), {"pass"})
IssuesFound(doc) == SumItems(VisibleSections(doc), IssueStatus)
InfoItems(doc) == SumItems(VisibleSections(doc), {"info"})

\* A faulty variant: the items marked info are left among the remaining ones
RemainingWithInfo(doc) == TotalItems(doc) - Passed(doc) - IssuesFound(doc)

Remaining(doc) == TotalItems(doc) - Passed(doc) - IssuesFound(doc) - InfoItems(doc)

SummaryCounts(doc) ==
    [total |-> TotalItems(doc), passed |-> Passed(doc),
     issues |-> IssuesFound(doc), remaining |-> Remaining(doc)]

-----------------------------------------------------------------------------
(* Lookups *)

SectionIds(doc) == {doc.sections[k].id : k \in DOMAIN doc.sections}

ItemIds(doc) ==
    UNION {{doc.sections[k].items[j].id : j \in DOMAIN doc.sections[k].items}
           : k \in DOMAIN doc.sections}

\* inspection.sections.find(s => s.id === sectionId)
FindSection(doc, sectionId) ==
    IF sectionId \in SectionIds(doc)
    THEN LET k == CHOOSE k \in DOMAIN doc.sections :
                    /\ doc.sections[k].id = sectionId
                    /\ \A j \in DOMAIN doc.sections :
                           doc.sections[j].id = sectionId => k <= j
         IN  doc.sections[k]
    ELSE [undefined |-> TRUE]

HasItem(sec, itemId) == \E j \in DOMAIN sec.items : sec.items[j].id = itemId

SectionArgs == IF inspection = NoProfile THEN {MissingSection}
               ELSE SectionIds(inspection) \cup {MissingSection}

\* Item ids a call may pass with sectionId: those of the section, and one
\* that matches no item
ItemArgs(sectionId) ==
    IF inspection = NoProfile \/ sectionId \notin SectionIds(inspection)
    THEN {MissingItem}
    ELSE LET sec == FindSection(inspection, sectionId)
         IN  {sec.items[j].id : j \in DOMAIN sec.items} \cup {MissingItem}


-----------------------------------------------------------------------------
(* The handlers of App.  Every handler that reads `inspection` starts with  *)
(* `if (!inspection) return`; its state update runs on the current document. *)

Idle == [kind |-> "none"]

Call(op, sectionId, itemId) == [op |-> op, sectionId |-> sectionId, itemId |-> itemId]

WithinBudget == steps < budget

\* A handler of the document: it leaves the stores alone
Step(op, sectionId, itemId) ==
    /\ steps' = steps + 1
    /\ lastCall' = Call(op, sectionId, itemId)
    /\ UNCHANGED <<storeVars, keyVars, appVars, genVars, budget>>

\* Date.now(): time does not run backwards
ReadClock(t) == t \in now..MaxClock /\ now' = t

NewProfile(t, sections) ==
    [id |-> t, savedReportId |-> UNDEF, shortId |-> UNDEF, userId |-> UNDEF,
     createdAt |-> t, sections |-> sections]

\* The sections generateInspectionPlan maps from the service's answer:
\* counts[k] items in section k
PlanSections(counts, t) ==
    [k \in DOMAIN counts |-> PlanSection(k - 1, counts[k], t)]

PlanShapes == UNION {[1..n -> 0..MaxItems] : n \in 0..MaxSections}

HandleStartInspection ==
    /\ WithinBudget
    /\ inspection = NoProfile
    /\ \E counts \in PlanShapes, t \in now..MaxClock :
          /\ ReadClock(t)
          /\ inspection' = NewProfile(t, PlanSections(counts, t))
    /\ Step("handleStartInspection", NullId, NullId)
    /\ UNCHANGED <<activeSectionId, cameraTarget, analyzingItemId, analyses,
                   isLoading, pending>>

\* section card onClick: setActiveSectionId(section.id); setView(SECTION_DETAIL)
SelectSection ==
    /\ WithinBudget
    /\ inspection # NoProfile
    /\ \E sectionId \in SectionIds(inspection) :
          /\ activeSectionId' = sectionId
          /\ lastCall' = Call("selectSection", sectionId, NullId)
    /\ view' = "SECTION_DETAIL"
    /\ steps' = steps + 1
    /\ UNCHANGED <<storeVars, keyVars, genVars, urlLoad, planCall, auth, budget>>
    /\ UNCHANGED <<inspection, cameraTarget, analyzingItemId, analyses,
                   isLoading, pending, now>>

UpdateItemStatus ==
    /\ WithinBudget
    /\ inspection # NoProfile
    /\ \E sectionId \in SectionArgs : \E itemId \in ItemArgs(sectionId), status \in ItemStatus :
          /\ inspection' = SetStatus(inspection, sectionId, itemId, status)
          /\ Step("updateItemStatus", sectionId, itemId)
    /\ UNCHANGED <<activeSectionId, cameraTarget, analyzingItemId, analyses,
                   isLoading, pending, now>>

UpdateItemOption ==
    /\ WithinBudget
    /\ inspection # NoProfile
    /\ \E sectionId \in SectionArgs : \E itemId \in ItemArgs(sectionId), option \in OptionTexts :
          /\ inspection' = SetOption(inspection, sectionId, itemId, option)
          /\ Step("updateItemOption", sectionId, itemId)
    /\ UNCHANGED <<activeSectionId, cameraTarget, analyzingItemId, analyses,
                   isLoading, pending, now>>

UpdateItemNote ==
    /\ WithinBudget
    /\ inspection # NoProfile
    /\ \E sectionId \in SectionArgs : \E itemId \in ItemArgs(sectionId), notes \in NoteTexts :
          /\ inspection' = SetNote(inspection, sectionId, itemId, notes)
          /\ Step("updateItemNote", sectionId, itemId)
    /\ UNCHANGED <<activeSectionId, cameraTarget, analyzingItemId, analyses,
                   isLoading, pending, now>>

ToggleItemVisibility ==
    /\ WithinBudget
    /\ inspection # NoProfile
    /\ \E sectionId \in SectionArgs : \E itemId \in ItemArgs(sectionId), isHidden \in {"true", "false"} :
          /\ inspection' = SetVisibility(inspection, sectionId, itemId, isHidden)
          /\ Step("toggleItemVisibility", sectionId, itemId)
    /\ UNCHANGED <<activeSectionId, cameraTarget, analyzingItemId, analyses,
                   isLoading, pending, now>>

\* "Hidden Item Recovery": the button is rendered while the active section
\* has a hidden item
ShowAllHidden ==
    /\ WithinBudget
    /\ inspection # NoProfile
    /\ activeSectionId \in SectionIds(inspection)
    /\ \E j \in DOMAIN FindSection(inspection, activeSectionId).items :
          IsHidden(FindSection(inspection, activeSectionId).items[j])
    /\ inspection' = ShowAll(inspection, activeSectionId)
    /\ Step("showAllHidden", activeSectionId, NullId)
    /\ UNCHANGED <<activeSectionId, cameraTarget, analyzingItemId, analyses,
                   isLoading, pending, now>>

\* Section detail view, "Take cover photo" and the camera button of an item:
\* setCameraTarget({ sectionId: activeSectionId, itemId? }); setCameraActive(true)
OpenCamera ==
    /\ WithinBudget
    /\ inspection # NoProfile
    /\ cameraTarget = NoTarget
    /\ activeSectionId \in SectionIds(inspection)
    /\ \E itemId \in (ItemArgs(activeSectionId) \ {MissingItem}) \cup {UndefId} :
          /\ cameraTarget' = [sectionId |-> activeSectionId, itemId |-> itemId]
          /\ Step("openCamera", activeSectionId, itemId)
    /\ UNCHANGED <<inspection, activeSectionId, analyzingItemId, analyses,
                   isLoading, pending, now>>

\* The item processImageAnalysis finds in the document of the render
AnalysisStarts(doc, target) ==
    /\ target.itemId # UndefId
    /\ target.sectionId \in SectionIds(doc)
    /\ HasItem(FindSection(doc, target.sectionId), target.itemId)

PhotosWithinBound(doc) ==
    \A k \in DOMAIN doc.sections : \A j \in DOMAIN doc.sections[k].items :
        Len(doc.sections[k].items[j].photos) <= MaxPhotos

HandleCapturePhoto ==
    /\ WithinBudget
    /\ inspection # NoProfile
    /\ cameraTarget # NoTarget
    /\ \E imageData \in Images :
          /\ inspection' = AddPhoto(inspection, cameraTarget, imageData)
          /\ PhotosWithinBound(inspection')
    /\ IF AnalysisStarts(inspection, cameraTarget)
       THEN /\ analyzingItemId' = cameraTarget.itemId
            /\ analyses' = analyses \cup
                   {[sectionId |-> cameraTarget.sectionId, itemId |-> cameraTarget.itemId]}
       ELSE UNCHANGED <<analyzingItemId, analyses>>
    /\ cameraTarget' = NoTarget
    /\ Step("handleCapturePhoto", cameraTarget.sectionId, cameraTarget.itemId)
    /\ UNCHANGED <<activeSectionId, isLoading, pending, now>>

DeletePhoto ==
    /\ WithinBudget
    /\ inspection # NoProfile
    /\ \E sectionId \in SectionArgs : \E itemId \in ItemArgs(sectionId), photoIndex \in 0..MaxPhotos :
          /\ inspection' = RemovePhoto(inspection, sectionId, itemId, photoIndex)
          /\ Step("deletePhoto", sectionId, itemId)
    /\ UNCHANGED <<activeSectionId, cameraTarget, analyzingItemId, analyses,
                   isLoading, pending, now>>

NotesWithinBound(doc) ==
    \A k \in DOMAIN doc.sections : \A j \in DOMAIN doc.sections[k].items :
        Len(doc.sections[k].items[j].notes) <= MaxNoteLen

\* processImageAnalysis after `await analyzeInspectionImage(...)`
AnalysisDone ==
    /\ WithinBudget
    /\ \E a \in analyses, description \in Descriptions :
          /\ inspection' = IF inspection = NoProfile THEN NoProfile
                           ELSE PatchAiNote(inspection, a.sectionId, a.itemId, description)
          /\ inspection # NoProfile => NotesWithinBound(inspection')
          /\ analyses' = analyses \ {a}
          /\ Step("processImageAnalysis", a.sectionId, a.itemId)
    /\ analyzingItemId' = NullId
    /\ UNCHANGED <<activeSectionId, cameraTarget, isLoading, pending, now>>

HandleAddSection ==
    /\ WithinBudget
    /\ inspection # NoProfile
    /\ ~isLoading
    /\ Len(inspection.sections) < MaxSections
    /\ isLoading' = TRUE
    /\ pending' = [kind |-> "addSection"]
    /\ Step("handleAddSection", NullId, NullId)
    /\ UNCHANGED <<inspection, activeSectionId, cameraTarget, analyzingItemId,
                   analyses, now>>

\* generateSingleSection answered: a section, or null
AddSectionDone ==
    /\ WithinBudget
    /\ pending.kind = "addSection"
    /\ \/ \E n \in 0..MaxItems, t \in now..MaxClock :
             /\ ReadClock(t)
             /\ inspection' = IF inspection = NoProfile THEN NoProfile
                              ELSE AppendSection(inspection, CustomSection(n, t))
       \/ UNCHANGED <<inspection, now>>
    /\ isLoading' = FALSE
    /\ pending' = Idle
    /\ Step("handleAddSection.then", NullId, NullId)
    /\ UNCHANGED <<activeSectionId, cameraTarget, analyzingItemId, analyses>>

RoomForItems(doc, sectionId) ==
    /\ sectionId \in SectionIds(doc)
    /\ Len(FindSection(doc, sectionId).items) < MaxItems

HandleAddItem ==
    /\ WithinBudget
    /\ inspection # NoProfile
    /\ activeSectionId # NullId
    /\ ~isLoading
    /\ activeSectionId \in SectionIds(inspection) => RoomForItems(inspection, activeSectionId)
    /\ isLoading' = TRUE
    /\ pending' = IF activeSectionId \in SectionIds(inspection)
                  THEN [kind |-> "addItem", sectionId |-> activeSectionId]
                  ELSE Idle
    /\ Step("handleAddItem", activeSectionId, NullId)
    /\ UNCHANGED <<inspection, activeSectionId, cameraTarget, analyzingItemId,
                   analyses, now>>

\* generateSectionItems answered: a list of items, empty on failure
AddItemDone ==
    /\ WithinBudget
    /\ pending.kind = "addItem"
    /\ \E n \in 0..MaxItems, t \in now..MaxClock :
          /\ ReadClock(t)
          /\ inspection' = IF inspection = NoProfile \/ n = 0 THEN inspection
                           ELSE AppendItems(inspection, pending.sectionId, AddedItems(n, t))
          /\ inspection # NoProfile /\ pending.sectionId \in SectionIds(inspection) =>
                 Len(FindSection(inspection', pending.sectionId).items) <= MaxItems
    /\ isLoading' = FALSE
    /\ pending' = Idle
    /\ Step("handleAddItem.then", pending.sectionId, NullId)
    /\ UNCHANGED <<activeSectionId, cameraTarget, analyzingItemId, analyses>>

-----------------------------------------------------------------------------

\* An inspection has been started: the document is the plan as generated
DocInit ==
    /\ \E counts \in PlanShapes : inspection = NewProfile(1, PlanSections(counts, 1))
    /\ activeSectionId \in SectionIds(inspection) \cup {NullId}
    /\ cameraTarget = NoTarget
    /\ analyzingItemId = NullId
    /\ analyses = {}
    /\ isLoading = FALSE
    /\ pending = Idle
    /\ now = 1
    /\ steps = 0
    /\ budget = MaxSteps
    /\ lastCall = Call("none", NullId, NullId)

DocNext ==
    \/ SelectSection
    \/ UpdateItemStatus
    \/ UpdateItemOption
    \/ UpdateItemNote
    \/ ToggleItemVisibility
    \/ ShowAllHidden
    \/ OpenCamera
    \/ HandleCapturePhoto
    \/ DeletePhoto
    \/ AnalysisDone
    \/ HandleAddSection
    \/ AddSectionDone
    \/ HandleAddItem
    \/ AddItemDone

-----------------------------------------------------------------------------
(* Identifier strings: the generators and the shape test of the load.  A    *)
(* string is the sequence of its characters.                                 *)

HexDigits == <<"0", "1", "2", "3", "4", "5", "6", "7", "8", "9",
               "a", "b", "c", "d", "e", "f">>

\* v.toString(16) for v in 0..15
ToHex(v) == HexDigits[v + 1]

Repeat(c, n) == [i \in 1..n |-> c]

\* 'xxxxxxxx-xxxx-4xxx-yxxx-xxxxxxxxxxxx'
UuidTemplate ==
    Repeat("x", 8) \o <<"-">> \o Repeat("x", 4) \o <<"-", "4">> \o Repeat("x", 3)
    \o <<"-", "y">> \o Repeat("x", 3) \o <<"-">> \o Repeat("x", 12)

\* The replace callback of generateUUID: c === 'x' ? r : (r & 0x3) | 0x8
ReplaceChar(c, r) ==
    IF c = "x" THEN ToHex(r)
    ELSE IF c = "y" THEN ToHex((r % 4) + 8)
    ELSE c

\* generateUUID() with the random digit r, taken the same at every place;
\* crypto.randomUUID() gives a string of the same form
UuidText(r) == [i \in DOMAIN UuidTemplate |-> ReplaceChar(UuidTemplate[i], r)]

\* Characters of the alphabet of generateShortId, one of each kind
ShortIdChars == {"a", "F", "z"}
ShortIdLength == 9

\* String.prototype.toLowerCase on the letters that occur
ToLower(c) == IF c = "F" THEN "f" ELSE IF c = "Z" THEN "z" ELSE c

\* A faulty variant: the pattern without the flag i
KeepCase(c) == c

\* The flag i of the pattern
FoldCase(c) == ToLower(c)

HexClass == {HexDigits[i] : i \in DOMAIN HexDigits}

\* /^[0-9a-f]{8}-[0-9a-f]{4}-[0-9a-f]{4}-[0-9a-f]{4}-[0-9a-f]{12}$/
UuidPattern ==
    <<[chars |-> HexClass, n |-> 8], [chars |-> {"-"}, n |-> 1],
      [chars |-> HexClass, n |-> 4], [chars |-> {"-"}, n |-> 1],
      [chars |-> HexClass, n |-> 4], [chars |-> {"-"}, n |-> 1],
      [chars |-> HexClass, n |-> 4], [chars |-> {"-"}, n |-> 1],
      [chars |-> HexClass, n |-> 12]>>

\* The pattern from its k-th part on matches str from pos to its end
RECURSIVE MatchFrom(_, _, _)
MatchFrom(str, pos, k) ==
    IF k > Len(UuidPattern) THEN pos = Len(str) + 1
    ELSE LET part == UuidPattern[k]
         IN  /\ pos + part.n - 1 <= Len(str)
             /\ \A i \in pos..(pos + part.n - 1) : FoldCase(str[i]) \in part.chars
             /\ MatchFrom(str, pos + part.n, k + 1)

\* pattern.test(str)
IsUuidText(str) == MatchFrom(str, 1, 1)

\* The column the load queries
QueryColumn(str) == IF IsUuidText(str) THEN "id" ELSE "short_id"

-----------------------------------------------------------------------------
(* The persistence gateway: keys, the two stores and the pure parts of      *)
(* saveReportToSupabase and loadReportFromSupabase.                          *)
(*                                                                          *)
(* The random generators are taken to be collision-free: a generated key    *)
(* is one that no row, no local record and no profile in memory carries.    *)
(* Unused keys are interchangeable, so the generators give the first one.   *)
(* JSON.stringify followed by JSON.parse gives back the records with their  *)
(* undefined fields dropped, which read as undefined again, so the stored   *)
(* text is the tagged value Json(map); any other text under LOCAL_KEY       *)
(* makes JSON.parse throw and is Corrupt.  The created_at stamps are left   *)
(* out.                                                                     *)

NULL == "null"
Uuids == {"U1", "U2"}
ShortIds == {"S1", "S2"}
UserIds == {"usr"}
KeyRank(key) == IF key \in {"U1", "S1"} THEN 1 ELSE 2
\* Strings the `id` parameter of the URL may carry
LoadIds == Uuids \cup ShortIds \cup {"x"}

\* The strings the keys of the model stand for
KeyText(key) ==
    IF key = "U1" THEN UuidText(1)
    ELSE IF key = "U2" THEN UuidText(10)
    ELSE IF key = "S1" THEN Repeat("a", ShortIdLength)
    ELSE IF key = "S2" THEN Repeat("0", ShortIdLength)
    ELSE <<"x">>

\* The keys whose strings pass the shape test
UuidShaped == {key \in LoadIds : IsUuidText(KeyText(key))}

\* The shape test of loadReportFromSupabase
IsUuid(idOrShortId) == idOrShortId \in UuidShaped

\* Truthiness of a key or user id
HasValue(v) == v \notin {UNDEF, NULL}

Absent == [kind |-> "absent"]
Corrupt == [kind |-> "corrupt"]
Json(map) == [kind |-> "json", map |-> map]

\* The parsed map keeps its keys in insertion order: a sequence of records
Keys(map) == {map[i].id : i \in DOMAIN map}
Lookup(map, id) == map[CHOOSE i \in DOMAIN map : map[i].id = id]
Put(map, id, record) ==
    IF id \in Keys(map)
    THEN [i \in DOMAIN map |-> IF map[i].id = id THEN record ELSE map[i]]
    ELSE Append(map, record)

\* A faulty variant: the scan compares the primary key
FindByPrimaryKey(map, id) ==
    LET hits == {i \in DOMAIN map : map[i].data.savedReportId = id}
    IN  IF hits = {} THEN [undefined |-> TRUE]
        ELSE map[CHOOSE i \in hits : \A j \in hits : i <= j]

\* Object.values(map).find(record => record.data?.shortId === id)
FindByShortId(map, id) ==
    LET hits == {i \in DOMAIN map : map[i].data.shortId = id}
    IN  IF hits = {} THEN [undefined |-> TRUE]
        ELSE map[CHOOSE i \in hits : \A j \in hits : i <= j]

UsedUuids ==
    DOMAIN remoteTable
    \cup (IF localStorage.kind = "json" THEN Keys(localStorage.map) ELSE {})
    \cup (IF inspection = NoProfile THEN {} ELSE {inspection.savedReportId})

UsedShortIds ==
    {remoteTable[u].short_id : u \in DOMAIN remoteTable}
    \cup (IF localStorage.kind = "json"
          THEN {localStorage.map[i].data.shortId : i \in DOMAIN localStorage.map}
          ELSE {})
    \cup (IF inspection = NoProfile THEN {} ELSE {inspection.shortId})

\* The first of the keys that are not in use, if there is one
FirstUnused(keys, used) ==
    {key \in keys \ used : \A other \in keys \ used : KeyRank(key) <= KeyRank(other)}

\* generateUUID() and generateShortId()
GenerateUUID == FirstUnused(Uuids, UsedUuids)
GenerateShortId == FirstUnused(ShortIds, UsedShortIds)

\* A faulty variant: a key is generated whether the profile has one or not
ResolveKeyAnew(existing, generated) == generated

\* `inspection.savedReportId || generateUUID()`: the values it can give
ResolveKey(existing, generated) ==
    IF HasValue(existing) THEN {existing} ELSE generated

\* payload: { ...inspection, savedReportId: uuid, shortId, userId }
Payload(report, uuid, shortId, userId) ==
    [report EXCEPT !.savedReportId = uuid, !.shortId = shortId, !.userId = userId]

\* "1) Always back up to localStorage": getOk and setOk tell whether
\* getItem and setItem work; ok tells whether the record got stored
LocalBackup(content, uuid, payload, getOk, setOk) ==
    LET existing == IF getOk THEN content ELSE Absent
    IN  IF existing.kind = "corrupt"
        THEN [content |-> content, ok |-> FALSE]
        ELSE LET map == IF existing.kind = "absent" THEN << >> ELSE existing.map
                 record == [id |-> uuid, data |-> payload]
             IN  IF setOk
                 THEN [content |-> Json(Put(map, uuid, record)), ok |-> TRUE]
                 ELSE [content |-> content, ok |-> FALSE]

\* What the upsert answers: the row, an error with a code, or an exception
UpsertOutcomes == {"ok", "42501", "42P01", "PGRST204", "other", "throw"}

\* A faulty variant: the missing column is a hard failure
IsRecoverableButColumn(code) == code \in {"42501", "42P01"}

\* The error codes after which the save returns the local keys
IsRecoverable(code) == code \in {"42501", "42P01", "PGRST204"}

NoResult == [state |-> "none", uuid |-> UNDEF, shortId |-> UNDEF]
Fulfilled(uuid, shortId) == [state |-> "fulfilled", uuid |-> uuid, shortId |-> shortId]
Rejected == [state |-> "rejected", uuid |-> UNDEF, shortId |-> UNDEF]

\* The promise of saveReportToSupabase after the upsert answered
SaveResult(outcome, uuid, shortId) ==
    IF outcome = "ok" \/ IsRecoverable(outcome)
    THEN Fulfilled(uuid, shortId)
    ELSE Rejected

\* upsert(dbPayload, { onConflict: 'id' }): user_id is written only when
\* userId is truthy
Upsert(table, uuid, shortId, userId, payload) ==
    LET user_id == IF HasValue(userId) THEN userId
                   ELSE IF uuid \in DOMAIN table THEN table[uuid].user_id
                   ELSE NULL
        row == [id |-> uuid, short_id |-> shortId, user_id |-> user_id, data |-> payload]
    IN  [u \in DOMAIN table \cup {uuid} |-> IF u = uuid THEN row ELSE table[u]]

\* How a block of loadReportFromSupabase ends
Return(value) == [kind |-> "return", value |-> value]
FallThrough == [kind |-> "next", value |-> NoProfile]
Throw == [kind |-> "throw", value |-> NoProfile]

\* What the query answers: the rows as they are, an error, or an exception
RemoteModes == {"answer", "error", "throw"}

\* query.eq('id', id) or query.eq('short_id', id)
MatchingRows(table, idOrShortId) ==
    {u \in DOMAIN table : IF IsUuid(idOrShortId) THEN table[u].id = idOrShortId
                          ELSE table[u].short_id = idOrShortId}

\* "1) Try Supabase", the body of the try: .single() gives an error unless
\* exactly one row matches
RemoteTry(table, idOrShortId, mode) ==
    IF mode = "throw" THEN Throw
    ELSE IF mode = "error" THEN FallThrough
    ELSE LET rows == MatchingRows(table, idOrShortId)
         IN  IF Cardinality(rows) # 1 THEN FallThrough
             ELSE LET data == table[CHOOSE u \in rows : TRUE]
                  IN  Return([data.data EXCEPT !.savedReportId = data.id,
                                               !.shortId = data.short_id,
                                               !.userId = data.user_id])

\* Faulty variants: the exception is not caught
RemoteNoCatch(r) == r
LocalNoCatch(r) == r

\* catch (err) { console.warn(...) }
RemoteCatch(r) == IF r.kind = "throw" THEN FallThrough ELSE r

\* "2) Fallback: localStorage", the body of the try
LocalTry(content, idOrShortId, getOk) ==
    LET existing == IF getOk THEN content ELSE Absent
    IN  IF existing.kind = "absent" THEN Return(NoProfile)
        ELSE IF existing.kind = "corrupt" THEN Throw
        ELSE LET map == existing.map
             IN  IF IsUuid(idOrShortId) /\ idOrShortId \in Keys(map)
                 THEN Return([Lookup(map, idOrShortId).data
                                 EXCEPT !.savedReportId = idOrShortId])
                 ELSE IF ~IsUuid(idOrShortId)
                         /\ FindByShortId(map, idOrShortId) # [undefined |-> TRUE]
                 THEN Return(FindByShortId(map, idOrShortId).data)
                 ELSE Return(NoProfile)

\* catch (e) { return null }
LocalCatch(r) == IF r.kind = "throw" THEN Return(NoProfile) ELSE r

\* loadReportFromSupabase(idOrShortId) on the stores given, the remote
\* backend answering in `mode` and getItem working iff getOk
LoadReport(configured, table, content, idOrShortId, mode, getOk) ==
    LET r == IF configured THEN RemoteCatch(RemoteTry(table, idOrShortId, mode))
             ELSE FallThrough
    IN  IF r.kind # "next" THEN r
        ELSE LocalCatch(LocalTry(content, idOrShortId, getOk))

\* The call on the stores of the state
LoadReportFromSupabase(idOrShortId, mode, getOk) ==
    LoadReport(supabase, remoteTable, localStorage, idOrShortId, mode, getOk)

-----------------------------------------------------------------------------
(* handleSaveReport with saveReportToSupabase, one action per stretch       *)
(* between two awaits, and the load the app runs when it starts with ?id=   *)

NoKeys == [uuid |-> UNDEF, shortId |-> UNDEF]

\* A step of the save or of the load
StoreStep(op) ==
    /\ steps' = steps + 1
    /\ lastCall' = Call(op, NullId, NullId)
    /\ UNCHANGED <<keyVars, genVars, urlLoad, planCall, auth>>

SaveIdle ==
    [pc |-> "idle", report |-> NoProfile, uuid |-> UNDEF, shortId |-> UNDEF,
     userId |-> UNDEF, payload |-> NoProfile, log |-> << >>, localOk |-> FALSE,
     upsert |-> "none", result |-> NoResult]

\* handleSaveReport up to the first await of saveReportToSupabase: the keys
\* are resolved; with a remote client the call waits for auth.getUser(),
\* without one it backs the payload up and returns the keys
HandleSaveReport ==
    /\ WithinBudget
    /\ inspection # NoProfile
    /\ ~isLoading
    /\ save.pc = "idle"
    /\ \E uuid \in ResolveKey(inspection.savedReportId, GenerateUUID),
          shortId \in ResolveKey(inspection.shortId, GenerateShortId) :
          LET call == [SaveIdle EXCEPT !.report = inspection, !.uuid = uuid,
                                       !.shortId = shortId,
                                       !.userId = inspection.userId]
          IN  IF supabase
              THEN /\ save' = [call EXCEPT !.pc = "getUser", !.log = <<"auth.getUser">>]
                   /\ UNCHANGED localStorage
              ELSE \E getOk \in BOOLEAN, setOk \in BOOLEAN :
                      LET payload == Payload(inspection, uuid, shortId, call.userId)
                          backup == LocalBackup(localStorage, uuid, payload, getOk, setOk)
                      IN  /\ localStorage' = backup.content
                          /\ save' = [call EXCEPT !.pc = "returned",
                                                  !.payload = payload,
                                                  !.log = <<"localStorage">>,
                                                  !.localOk = backup.ok,
                                                  !.result = Fulfilled(uuid, shortId)]
    /\ isLoading' = TRUE
    /\ StoreStep("handleSaveReport")
    /\ UNCHANGED <<uiVars, inspection, supabase, remoteTable, savedAs>>

\* auth.getUser() answered with the user or with none: the payload is built
\* and backed up, and the upsert is sent.  Or it threw: the save rejects.
SaveAfterGetUser ==
    /\ WithinBudget
    /\ save.pc = "getUser"
    /\ \/ \E user \in UserIds \cup {NULL}, getOk \in BOOLEAN, setOk \in BOOLEAN :
             LET userId == IF user # NULL THEN user ELSE save.userId
                 payload == Payload(save.report, save.uuid, save.shortId, userId)
                 backup == LocalBackup(localStorage, save.uuid, payload, getOk, setOk)
             IN  /\ localStorage' = backup.content
                 /\ save' = [save EXCEPT !.pc = "upsert", !.userId = userId,
                                         !.payload = payload,
                                         !.log = @ \o <<"localStorage", "upsert">>,
                                         !.localOk = backup.ok]
       \/ /\ save' = [save EXCEPT !.pc = "returned", !.result = Rejected]
          /\ UNCHANGED localStorage
    /\ StoreStep("saveReportToSupabase.getUser")
    /\ UNCHANGED <<uiVars, inspection, isLoading, supabase, remoteTable, savedAs>>

\* The upsert answered
SaveAfterUpsert ==
    /\ WithinBudget
    /\ save.pc = "upsert"
    /\ \E outcome \in UpsertOutcomes :
          /\ remoteTable' = IF outcome = "ok"
                            THEN Upsert(remoteTable, save.uuid, save.shortId,
                                        save.userId, save.payload)
                            ELSE remoteTable
          /\ save' = [save EXCEPT !.pc = "returned", !.upsert = outcome,
                                  !.result = SaveResult(outcome, save.uuid, save.shortId)]
    /\ StoreStep("saveReportToSupabase.upsert")
    /\ UNCHANGED <<uiVars, inspection, isLoading, supabase, localStorage, savedAs>>

\* handleSaveReport after `await saveReportToSupabase(inspection)`
SaveReturns ==
    /\ WithinBudget
    /\ save.pc = "returned"
    /\ IF save.result.state = "fulfilled"
       THEN /\ inspection' = IF inspection = NoProfile THEN NoProfile
                             ELSE [inspection EXCEPT !.savedReportId = save.result.uuid,
                                                     !.shortId = save.result.shortId]
            /\ savedAs' = IF savedAs = NoKeys
                          THEN [uuid |-> save.result.uuid, shortId |-> save.result.shortId]
                          ELSE savedAs
       ELSE UNCHANGED <<inspection, savedAs>>
    /\ isLoading' = FALSE
    /\ save' = [save EXCEPT !.pc = "idle"]
    /\ StoreStep("handleSaveReport.then")
    /\ UNCHANGED <<uiVars, supabase, localStorage, remoteTable>>

LoadedOrNull(loaded) == loaded.kind = "return"

\* `if (loadedProfile)`: the load returned a profile, neither null nor an error
Loaded(loaded) == loaded.kind = "return" /\ loaded.value # NoProfile

\* The page is opened with ?id=reportId: a new App, checkUrlForReport loads
\* the report and hydrates the document, or leaves it null
CheckUrlForReport ==
    /\ WithinBudget
    /\ save.pc = "idle"
    /\ pending = Idle
    /\ \E reportId \in LoadIds, mode \in RemoteModes, getOk \in BOOLEAN :
          LET loaded == LoadReportFromSupabase(reportId, mode, getOk)
          IN  /\ inspection' = IF loaded.kind = "return" THEN loaded.value
                               ELSE NoProfile
              /\ view' = IF Loaded(loaded) THEN "DASHBOARD" ELSE "LANDING"
    /\ activeSectionId' = NullId
    /\ cameraTarget' = NoTarget
    /\ analyzingItemId' = NullId
    /\ analyses' = {}
    /\ isLoading' = FALSE
    /\ savedAs' = NoKeys
    /\ StoreStep("checkUrlForReport")
    /\ UNCHANGED <<pending, now, budget, supabase, localStorage, remoteTable, save>>

-----------------------------------------------------------------------------
(* The generation service: what generateContent answers and what the four   *)
(* exported functions make of it.  A JSON value is a record tagged with its *)
(* type; a response text is the value it reads as once the fences and the   *)
(* surrounding prose are cut away (Garbage if it reads as nothing), and     *)
(* whether it carries surrounding whitespace.                                *)

NoResponse == [kind |-> "none"]  \* no response under test
NoAnswer == [kind |-> "none"]    \* no call made yet

JUndefined == [t |-> "undefined"]
JNull == [t |-> "null"]
JNumber == [t |-> "number"]
JString == [t |-> "string"]
JObject(items) == [t |-> "object", items |-> items]
JArray(elems) == [t |-> "array", elems |-> elems]
Garbage == [t |-> "garbage"]

SeqsUpTo(S, n) == UNION {[1..k -> S] : k \in 0..n}

\* An element of an `items` array
ItemJson == {JNull, JNumber, JObject(JUndefined)}

\* What the `items` property of a section holds
ItemsJson ==
    {JUndefined, JNull, JString, JObject(JUndefined)}
        \cup {JArray(elems) : elems \in SeqsUpTo(ItemJson, MaxItems)}

\* An element of the plan array
SectionJson == {JNull, JNumber} \cup {JObject(items) : items \in ItemsJson}

\* The values a response text reads as
JsonValues ==
    {JNull, JNumber, JString}
        \cup {JObject(items) : items \in ItemsJson}
        \cup {JArray(elems) : elems \in SeqsUpTo(SectionJson, MaxSections)}

MissingText == [undefined |-> TRUE]  \* response.text being undefined
EmptyText == [empty |-> TRUE]        \* response.text being ""
Text(json, padded) == [json |-> json, padded |-> padded]
ResponseTexts ==
    {MissingText, EmptyText}
        \cup {Text(json, padded) : json \in JsonValues \cup {Garbage},
                                   padded \in BOOLEAN}

\* generateContent resolves with a response or rejects
Responses == {[kind |-> "throw"]} \cup {[kind |-> "text", text |-> txt] : txt \in ResponseTexts}

Thrown == [kind |-> "throw"]
Returned(value) == [kind |-> "return", value |-> value]

\* cleanJson: "[]" for a missing or empty text, else the text cut to its
\* outermost brackets
CleanJson(txt) ==
    IF txt \in {MissingText, EmptyText} THEN Text(JArray(<< >>), FALSE)
    ELSE Text(txt.json, FALSE)

\* JSON.parse: the value, or a SyntaxError
JsonParse(txt) == IF txt.json = Garbage THEN Thrown ELSE Returned(txt.json)

\* String.prototype.trim, a TypeError on undefined
Trim(txt) ==
    IF txt = MissingText THEN Thrown
    ELSE IF txt = EmptyText THEN Returned(EmptyText)
    ELSE Returned(Text(txt.json, FALSE))

\* value.items: a TypeError on null and undefined, undefined where the value
\* has no such property
GetItems(value) ==
    IF value.t \in {"null", "undefined"} THEN Thrown
    ELSE IF value.t = "object" THEN Returned(value.items)
    ELSE Returned(JUndefined)

\* value.map(item => ({... label: item.label ...})): the number of elements
\* mapped; a TypeError where value has no map or an element is null
MapLabels(value) ==
    IF value.t # "array" THEN Thrown
    ELSE IF \E i \in 1..Len(value.elems) : value.elems[i].t \in {"null", "undefined"}
    THEN Thrown
    ELSE Returned(Len(value.elems))

\* section.items.map(...)
MapItemsOf(value) ==
    LET items == GetItems(value)
    IN  IF items.kind = "throw" THEN Thrown ELSE MapLabels(items.value)

\* The text of the response parsed: the body of the try up to JSON.parse
ParsedResponse(resp) ==
    IF resp.kind = "throw" THEN Thrown ELSE JsonParse(CleanJson(resp.text))

\* The fixed InterNACHI checklist of the catch block
FallbackItems ==
    <<<<"r1", "r2", "r3">>, <<"e1", "e2", "e3">>, <<"f1", "f2">>,
      <<"h1", "h2">>, <<"el1", "el2", "el3">>, <<"p1", "p2">>>>

FallbackSection(k) ==
    [id |-> <<"fb", k>>, status |-> "pending", photoUrl |-> UNDEF,
     items |-> [i \in 1..Len(FallbackItems[k]) |-> NewItem(<<FallbackItems[k][i]>>)]]

FallbackPlan == [k \in 1..Len(FallbackItems) |-> FallbackSection(k)]

NoSection == [null |-> TRUE]                     \* generateSingleSection returning null
AnalyzedImage == [fixed |-> "Analyzed image."]  \* the text of the catch block

\* The catch blocks: what a function returns given how its try block ended
PlanRethrow(tried) == tried
PlanCatch(tried) == IF tried.kind = "throw" THEN Returned(FallbackPlan) ELSE tried
SectionCatch(tried) == IF tried.kind = "throw" THEN Returned(NoSection) ELSE tried
ItemsCatch(tried) == IF tried.kind = "throw" THEN Returned(<< >>) ELSE tried
AnalysisCatch(tried) == IF tried.kind = "throw" THEN Returned(AnalyzedImage) ELSE tried

\* generateInspectionPlan: the try block, then the function
PlanTry(resp, t) ==
    LET rawData == ParsedResponse(resp)
    IN  IF rawData.kind = "throw" THEN Thrown
        ELSE IF rawData.value.t # "array" THEN Thrown
        ELSE IF \E k \in 1..Len(rawData.value.elems) :
                    MapItemsOf(rawData.value.elems[k]).kind = "throw"
        THEN Thrown
        ELSE Returned([k \in 1..Len(rawData.value.elems) |->
                 PlanSection(k - 1, MapItemsOf(rawData.value.elems[k]).value, t)])

\* A faulty variant: the function without its catch block
GenerateInspectionPlanUncaught(resp, t) == PlanTry(resp, t)

GenerateInspectionPlan(resp, t) == PlanCatch(PlanTry(resp, t))

\* generateSingleSection
SectionTry(resp, t) ==
    LET data == ParsedResponse(resp)
    IN  IF data.kind = "throw" THEN Thrown
        ELSE IF MapItemsOf(data.value).kind = "throw" THEN Thrown
        ELSE Returned(CustomSection(MapItemsOf(data.value).value, t))

GenerateSingleSection(resp, t) == SectionCatch(SectionTry(resp, t))

\* generateSectionItems
ItemsTry(resp, t) ==
    LET data == ParsedResponse(resp)
    IN  IF data.kind = "throw" THEN Thrown
        ELSE IF MapLabels(data.value).kind = "throw" THEN Thrown
        ELSE Returned(AddedItems(MapLabels(data.value).value, t))

GenerateSectionItems(resp, t) == ItemsCatch(ItemsTry(resp, t))

\* analyzeInspectionImage
AnalysisTry(resp) == IF resp.kind = "throw" THEN Thrown ELSE Trim(resp.text)

AnalyzeInspectionImage(resp) == AnalysisCatch(AnalysisTry(resp))

\* A call of one of the four functions on the response under test
GenerationCall(fn, result) ==
    /\ response # NoResponse
    /\ answer = NoAnswer
    /\ answer' = [kind |-> "answer", fn |-> fn, at |-> now, result |-> result]
    /\ UNCHANGED <<docVars, storeVars, keyVars, appVars, response>>

CallGenerateInspectionPlan ==
    GenerationCall("generateInspectionPlan", GenerateInspectionPlan(response, now))

CallGenerateSingleSection ==
    GenerationCall("generateSingleSection", GenerateSingleSection(response, now))

CallGenerateSectionItems ==
    GenerationCall("generateSectionItems", GenerateSectionItems(response, now))

CallAnalyzeInspectionImage ==
    GenerationCall("analyzeInspectionImage", AnalyzeInspectionImage(response))

-----------------------------------------------------------------------------
(* The views of App: the startup effect, the navigation buttons, and the    *)
(* handlers that await authService or the plan generation.  The state       *)
(* updates a handler makes between two awaits are one step.                  *)

\* A step that leaves the stores alone
ViewStep(op) ==
    /\ steps' = steps + 1
    /\ lastCall' = Call(op, NullId, NullId)
    /\ UNCHANGED <<storeVars, keyVars, genVars, budget>>

\* The effects of the first render are flushed before any event is handled
EffectsRan == urlLoad # "mounted"

\* A button that only calls setView
Navigate(op, to) ==
    /\ WithinBudget
    /\ EffectsRan
    /\ view' = to
    /\ ViewStep(op)
    /\ UNCHANGED <<inspection, activeSectionId, cameraTarget, analyzingItemId,
                   analyses, isLoading, pending, now, urlLoad, planCall, auth>>

\* The startup effect runs after the first render: with ?id= in the URL,
\* checkUrlForReport sets the loading view and awaits the load
CheckUrlStarts ==
    /\ urlLoad = "mounted"
    /\ view' = "LOADING"
    /\ urlLoad' = "loading"
    /\ ViewStep("checkUrlForReport")
    /\ UNCHANGED <<inspection, activeSectionId, cameraTarget, analyzingItemId,
                   analyses, isLoading, pending, now, planCall, auth>>

\* loadReportFromSupabase answered: the profile is hydrated and shown in the
\* dashboard, or the app goes back to the landing view
CheckUrlEnds ==
    /\ urlLoad = "loading"
    /\ \E reportId \in LoadIds, mode \in RemoteModes, getOk \in BOOLEAN :
          LET loaded == LoadReportFromSupabase(reportId, mode, getOk)
          IN  /\ inspection' = IF Loaded(loaded) THEN loaded.value
                               ELSE inspection
              /\ view' = IF Loaded(loaded) THEN "DASHBOARD" ELSE "LANDING"
    /\ urlLoad' = "done"
    /\ ViewStep("checkUrlForReport.then")
    /\ UNCHANGED <<activeSectionId, cameraTarget, analyzingItemId, analyses,
                   isLoading, pending, now, planCall, auth>>

\* Landing: "Start Inspection"
GoSetup == view = "LANDING" /\ Navigate("goSetup", "SETUP")

\* Setup: the back button
BackToLanding == view = "SETUP" /\ Navigate("backToLanding", "LANDING")

\* Landing and dashboard: "Sign In"
GoAuth == view \in {"LANDING", "DASHBOARD"} /\ Navigate("goAuth", "AUTH")

\* AuthModal onCancel
AuthCancel ==
    /\ view = "AUTH"
    /\ Navigate("authCancel", IF inspection # NoProfile THEN "DASHBOARD" ELSE "LANDING")

\* Dashboard: the preview / finalize button
OpenReport == view = "DASHBOARD" /\ Navigate("openReport", "REPORT")

\* Report and section detail: the back button
BackToDashboard ==
    /\ view \in {"REPORT", "SECTION_DETAIL"}
    /\ inspection # NoProfile
    /\ Navigate("backToDashboard", "DASHBOARD")

\* Dashboard: a section card is clicked
SectionCardClicked == view = "DASHBOARD" /\ SelectSection

\* A call awaiting authService, with the document its closure holds
AuthCall(op) == [op |-> op, hadDocument |-> inspection # NoProfile]

AuthStarts(op) ==
    /\ WithinBudget
    /\ EffectsRan
    /\ AuthCall(op) \notin auth
    /\ auth' = auth \cup {AuthCall(op)}
    /\ ViewStep(op)
    /\ UNCHANGED <<inspection, activeSectionId, cameraTarget, analyzingItemId,
                   analyses, isLoading, pending, now, view, urlLoad, planCall>>

AuthEnds(call, to) ==
    /\ call \in auth
    /\ auth' = auth \ {call}
    /\ view' = to
    /\ ViewStep(call.op \o ".then")
    /\ UNCHANGED <<inspection, activeSectionId, cameraTarget, analyzingItemId,
                   analyses, isLoading, pending, now, urlLoad, planCall>>

\* handleLogout, offered on the landing view and the dashboard to a signed-in
\* user: await authService.signOut(), then the landing view
HandleLogout == view \in {"LANDING", "DASHBOARD"} /\ AuthStarts("handleLogout")

LogoutEnds ==
    \E call \in auth : call.op = "handleLogout" /\ AuthEnds(call, "LANDING")

\* handleAuthSuccess: await authService.getCurrentUser(), then the dashboard
\* if the handler's closure holds a document, else the landing view
HandleAuthSuccess == view = "AUTH" /\ AuthStarts("handleAuthSuccess")

AuthSuccessEnds ==
    \E call \in auth :
        /\ call.op = "handleAuthSuccess"
        /\ AuthEnds(call, IF call.hadDocument THEN "DASHBOARD" ELSE "LANDING")

\* What generateContent answers to the plan request
PlanResponses ==
    {[kind |-> "throw"],
     [kind |-> "text", text |-> MissingText],
     [kind |-> "text", text |-> Text(JArray(<<JObject(JArray(<<JObject(JUndefined)>>))>>), FALSE)]}

\* Setup: "Generate Checklist" with an address and a property type;
\* handleStartInspection up to `await generateInspectionPlan`
StartInspection ==
    /\ WithinBudget
    /\ EffectsRan
    /\ view = "SETUP"
    /\ planCall = "idle"
    /\ isLoading' = TRUE
    /\ view' = "LOADING"
    /\ planCall' = "generating"
    /\ ViewStep("handleStartInspection")
    /\ UNCHANGED <<inspection, activeSectionId, cameraTarget, analyzingItemId,
                   analyses, pending, now, urlLoad, auth>>

\* handleStartInspection after the await: the new profile and the dashboard,
\* or the setup view again if the generation threw
StartInspectionDone ==
    /\ planCall = "generating"
    /\ \E resp \in PlanResponses, t \in now..MaxClock :
          LET plan == GenerateInspectionPlan(resp, t)
          IN  /\ ReadClock(t)
              /\ IF plan.kind = "return"
                 THEN /\ inspection' = NewProfile(t, plan.value)
                      /\ view' = "DASHBOARD"
                 ELSE /\ view' = "SETUP"
                      /\ UNCHANGED inspection
    /\ isLoading' = FALSE
    /\ planCall' = "idle"
    /\ ViewStep("handleStartInspection.then")
    /\ UNCHANGED <<activeSectionId, cameraTarget, analyzingItemId, analyses,
                   pending, urlLoad, auth>>

\* Dashboard and report: the save button, disabled while isLoading
SaveClicked == view \in {"DASHBOARD", "REPORT"} /\ HandleSaveReport

-----------------------------------------------------------------------------
(* The section detail as the user works it: what its buttons pass to the    *)
(* handlers                                                                  *)

\* A faulty variant: the buttons offer every status
EveryStatus == ItemStatus

\* Status Selectors: the five conditions the buttons offer
OfferedStatuses == {"pass", "info", "attention", "moderate", "dangerous"}

\* The items the section detail lists: those of the active section not hidden
ListedItems ==
    IF inspection = NoProfile \/ activeSectionId \notin SectionIds(inspection) THEN {}
    ELSE LET sec == FindSection(inspection, activeSectionId)
         IN  {sec.items[j].id : j \in {i \in DOMAIN sec.items : Visible(sec.items[i])}}

\* A status button of a listed item: updateItemStatus(activeSectionId, item.id, s)
SelectItemStatus ==
    /\ WithinBudget
    /\ \E itemId \in ListedItems, status \in OfferedStatuses :
          /\ inspection' = SetStatus(inspection, activeSectionId, itemId, status)
          /\ Step("updateItemStatus", activeSectionId, itemId)
    /\ UNCHANGED <<activeSectionId, cameraTarget, analyzingItemId, analyses,
                   isLoading, pending, now>>

\* SwipeableItem onHide: toggleItemVisibility(activeSectionId, item.id, true)
HideItem ==
    /\ WithinBudget
    /\ \E itemId \in ListedItems :
          /\ inspection' = SetVisibility(inspection, activeSectionId, itemId, "true")
          /\ Step("toggleItemVisibility", activeSectionId, itemId)
    /\ UNCHANGED <<activeSectionId, cameraTarget, analyzingItemId, analyses,
                   isLoading, pending, now>>

-----------------------------------------------------------------------------
(* The specifications *)

\* No identifier is under test
KeysIdle ==
    /\ text = << >>
    /\ keyPc = "input"

\* No generation call is under test
GenIdle ==
    /\ response = NoResponse
    /\ answer = NoAnswer

\* The view a document is worked on in: the section detail once a section
\* card has been clicked, else the dashboard; the landing view without one
ViewOf(doc, sectionId) ==
    IF doc = NoProfile THEN "LANDING"
    ELSE IF sectionId = NullId THEN "DASHBOARD"
    ELSE "SECTION_DETAIL"

\* Nothing of the startup, the plan generation or authService is in flight
AppIdle ==
    /\ view = ViewOf(inspection, activeSectionId)
    /\ urlLoad = "none"
    /\ planCall = "idle"
    /\ auth = {}

StoreIdle ==
    /\ supabase = FALSE
    /\ localStorage = Absent
    /\ remoteTable = << >>
    /\ save = SaveIdle
    /\ savedAs = NoKeys

\* The document handlers on a started inspection
Init == DocInit /\ StoreIdle /\ KeysIdle /\ AppIdle /\ GenIdle
Next == DocNext
vars == <<docVars, storeVars, keyVars, appVars, genVars>>
Spec == Init /\ [][Next]_vars

\* A row of the remote table that was written without a short key
RowWithoutShortKey ==
    [u \in {"U1"} |->
        [id |-> "U1", short_id |-> NULL, user_id |-> NULL,
         data |-> NewProfile(1, PlanSections(<<1>>, 1))]]

\* The document the gateway specification starts from, and what an earlier
\* save of it under the keys U1 and S1 stored
FirstReport == NewProfile(1, PlanSections(<<1>>, 1))
FirstPayload == Payload(FirstReport, "U1", "S1", UNDEF)
FirstRecord == [id |-> "U1", data |-> FirstPayload]

\* The gateway.  The app holds a small document that was never saved; or it
\* has not loaded yet the row a former client left in the remote table; or
\* its document carries the keys of an earlier save, as handleSaveReport
\* leaves it, with the row and the record that save stored.
StoreInit ==
    /\ supabase \in BOOLEAN
    /\ \/ /\ inspection = FirstReport
          /\ remoteTable = << >>
          /\ localStorage \in {Absent, Corrupt}
          /\ savedAs = NoKeys
       \/ /\ inspection = NoProfile
          /\ supabase = TRUE
          /\ remoteTable = RowWithoutShortKey
          /\ localStorage \in {Absent, Corrupt}
          /\ savedAs = NoKeys
       \/ /\ inspection = [FirstReport EXCEPT !.savedReportId = "U1", !.shortId = "S1"]
          /\ remoteTable = IF supabase THEN Upsert(<< >>, "U1", "S1", UNDEF, FirstPayload)
                           ELSE << >>
          /\ localStorage = Json(<<FirstRecord>>)
          /\ savedAs = [uuid |-> "U1", shortId |-> "S1"]
    /\ activeSectionId = NullId
    /\ cameraTarget = NoTarget
    /\ analyzingItemId = NullId
    /\ analyses = {}
    /\ isLoading = FALSE
    /\ pending = Idle
    /\ now = 1
    /\ steps = 0
    /\ budget = MaxStoreSteps
    /\ lastCall = Call("none", NullId, NullId)
    /\ save = SaveIdle
    /\ KeysIdle
    /\ AppIdle
    /\ GenIdle

StoreNext ==
    \/ UpdateItemNote
    \/ HandleSaveReport
    \/ SaveAfterGetUser
    \/ SaveAfterUpsert
    \/ SaveReturns
    \/ CheckUrlForReport

SpecStore == StoreInit /\ [][StoreNext]_vars

\* Photos: the inspection is under way and one item may carry photos already
PhotoLists == UNION {[1..n -> Images] : n \in 0..MaxPhotos}

WithPhotos(doc, p, photos) ==
    [doc EXCEPT !.sections[p[1]].items[p[2]].photos = photos]

PhotoInit ==
    /\ \E counts \in PlanShapes :
          LET plan == NewProfile(1, PlanSections(counts, 1))
              places == {p \in (DOMAIN counts) \X (1..MaxItems) : p[2] <= counts[p[1]]}
          IN  \/ inspection = plan
              \/ \E p \in places, photos \in PhotoLists :
                     inspection = WithPhotos(plan, p, photos)
    /\ activeSectionId \in SectionIds(inspection)
    /\ cameraTarget = NoTarget
    /\ analyzingItemId = NullId
    /\ analyses = {}
    /\ isLoading = FALSE
    /\ pending = Idle
    /\ now = 1
    /\ steps = 0
    /\ budget = MaxPhotoSteps
    /\ lastCall = Call("none", NullId, NullId)
    /\ StoreIdle
    /\ KeysIdle
    /\ AppIdle
    /\ GenIdle

PhotoNext ==
    \/ OpenCamera
    \/ HandleCapturePhoto
    \/ DeletePhoto
    \/ AnalysisDone

SpecPhotos == PhotoInit /\ [][PhotoNext]_vars

\* Growth: a short plan has been generated; the document is edited, grown
\* and saved
RECURSIVE Sum(_)
Sum(counts) == IF counts = << >> THEN 0 ELSE Head(counts) + Sum(Tail(counts))

ShortPlans == {counts \in PlanShapes : Sum(counts) <= MaxPlanItems}

GrowInit ==
    /\ supabase \in BOOLEAN
    /\ \E counts \in ShortPlans : inspection = NewProfile(1, PlanSections(counts, 1))
    /\ activeSectionId \in SectionIds(inspection) \cup {NullId}
    /\ cameraTarget = NoTarget
    /\ analyzingItemId = NullId
    /\ analyses = {}
    /\ isLoading = FALSE
    /\ pending = Idle
    /\ now = 1
    /\ steps = 0
    /\ budget = MaxGrowSteps
    /\ lastCall = Call("none", NullId, NullId)
    /\ localStorage = Absent
    /\ remoteTable = << >>
    /\ save = SaveIdle
    /\ savedAs = NoKeys
    /\ KeysIdle
    /\ AppIdle
    /\ GenIdle

GrowNext ==
    \/ DocNext
    \/ HandleSaveReport
    \/ SaveAfterGetUser
    \/ SaveAfterUpsert
    \/ SaveReturns

SpecGrow == GrowInit /\ [][GrowNext]_vars

\* Progress: the plan is one section, short or long, and the inspector has
\* gone through none or all but two of its items
SectionLengths == (0..3) \cup ((MaxLongSection - 2)..MaxLongSection)

Inspected(n) == {c \in {0, n - 2} : c >= 0}

\* The plan of one section of n items after updateItemStatus(_, _, 'pass') on
\* the first c of them
PartlyInspected(n, c) ==
    LET plan == PlanSection(0, n, 1)
        items == [j \in 1..n |->
                     IF j <= c THEN [plan.items[j] EXCEPT !.status = "pass"]
                     ELSE plan.items[j]]
    IN  NewProfile(1, <<[plan EXCEPT !.items = items,
                                    !.status = IF c = 0 THEN "pending"
                                               ELSE CalcSectionStatus(items)]>>)

ProgressInit ==
    /\ \E n \in SectionLengths : \E c \in Inspected(n) :
          inspection = PartlyInspected(n, c)
    /\ activeSectionId \in SectionIds(inspection)
    /\ cameraTarget = NoTarget
    /\ analyzingItemId = NullId
    /\ analyses = {}
    /\ isLoading = FALSE
    /\ pending = Idle
    /\ now = 1
    /\ steps = 0
    /\ budget = MaxProgressSteps
    /\ lastCall = Call("none", NullId, NullId)
    /\ StoreIdle
    /\ KeysIdle
    /\ AppIdle
    /\ GenIdle

ProgressNext ==
    \/ UpdateItemStatus
    \/ ToggleItemVisibility

SpecProgress == ProgressInit /\ [][ProgressNext]_vars

\* The generation service on every response: no document, one call
GenInit ==
    /\ inspection = NoProfile
    /\ activeSectionId = NullId
    /\ cameraTarget = NoTarget
    /\ analyzingItemId = NullId
    /\ analyses = {}
    /\ isLoading = FALSE
    /\ pending = Idle
    /\ now \in 1..MaxClock
    /\ steps = 0
    /\ budget = 0
    /\ lastCall = Call("none", NullId, NullId)
    /\ StoreIdle
    /\ KeysIdle
    /\ AppIdle
    /\ response \in Responses
    /\ answer = NoAnswer

GenNext ==
    \/ CallGenerateInspectionPlan
    \/ CallGenerateSingleSection
    \/ CallGenerateSectionItems
    \/ CallAnalyzeInspectionImage

SpecGen == GenInit /\ [][GenNext]_vars

\* The views: the App is mounted without a document, with or without ?id= in
\* the URL, the stores holding what a former session saved
ViewsMounted ==
    /\ inspection = NoProfile
    /\ activeSectionId = NullId
    /\ cameraTarget = NoTarget
    /\ analyzingItemId = NullId
    /\ analyses = {}
    /\ isLoading = FALSE
    /\ pending = Idle
    /\ now = 1
    /\ steps = 0
    /\ lastCall = Call("none", NullId, NullId)
    /\ supabase \in BOOLEAN
    /\ remoteTable = IF supabase THEN Upsert(<< >>, "U1", "S1", UNDEF, FirstPayload)
                     ELSE << >>
    /\ localStorage = Json(<<FirstRecord>>)
    /\ save = SaveIdle
    /\ savedAs = NoKeys
    /\ KeysIdle
    /\ GenIdle
    /\ view = "LANDING"
    /\ urlLoad \in {"none", "mounted"}
    /\ planCall = "idle"
    /\ auth = {}

ViewsInit == ViewsMounted /\ budget = MaxViewSteps

ViewsNext ==
    \/ CheckUrlStarts
    \/ CheckUrlEnds
    \/ GoSetup
    \/ BackToLanding
    \/ GoAuth
    \/ AuthCancel
    \/ OpenReport
    \/ BackToDashboard
    \/ SectionCardClicked
    \/ HandleLogout
    \/ LogoutEnds
    \/ HandleAuthSuccess
    \/ AuthSuccessEnds
    \/ StartInspection
    \/ StartInspectionDone
    \/ SaveClicked
    \/ SaveAfterGetUser
    \/ SaveAfterUpsert
    \/ SaveReturns

SpecViews == ViewsInit /\ [][ViewsNext]_vars

\* The views, every awaited call of the startup and of the start of an
\* inspection returning or throwing in the end
LiveInit == ViewsMounted /\ budget = MaxLiveSteps

SpecViewsLive ==
    /\ LiveInit
    /\ [][ViewsNext]_vars
    /\ WF_vars(CheckUrlStarts)
    /\ WF_vars(CheckUrlEnds)
    /\ WF_vars(StartInspectionDone)

\* The section detail of a fresh inspection, with nothing in flight, or a
\* request for items or for a section awaited, or the first photo of the
\* first item under analysis
InFlight == {"none", "addItem", "addSection", "analysis"}

AsyncInit ==
    /\ \E n \in 1..MaxItems, flight \in InFlight :
          LET doc == NewProfile(1, PlanSections(<<n>>, 1))
              first == [sectionId |-> doc.sections[1].id,
                        itemId |-> doc.sections[1].items[1].id]
          IN  /\ activeSectionId = first.sectionId
              /\ inspection = IF flight = "analysis"
                              THEN AddPhoto(doc, first, "img1")
                              ELSE doc
              /\ analyses = IF flight = "analysis" THEN {first} ELSE {}
              /\ analyzingItemId = IF flight = "analysis" THEN first.itemId ELSE NullId
              /\ isLoading = (flight \in {"addItem", "addSection"})
              /\ pending = IF flight = "addItem"
                           THEN [kind |-> "addItem", sectionId |-> first.sectionId]
                           ELSE IF flight = "addSection" THEN [kind |-> "addSection"]
                           ELSE Idle
    /\ cameraTarget = NoTarget
    /\ now = 1
    /\ steps = 0
    /\ budget = MaxAsyncSteps
    /\ lastCall = Call("none", NullId, NullId)
    /\ StoreIdle
    /\ KeysIdle
    /\ AppIdle
    /\ GenIdle

AsyncNext ==
    \/ SelectItemStatus
    \/ UpdateItemNote
    \/ UpdateItemOption
    \/ HideItem
    \/ ShowAllHidden
    \/ OpenCamera
    \/ HandleCapturePhoto
    \/ AnalysisDone
    \/ HandleAddSection
    \/ AddSectionDone
    \/ HandleAddItem
    \/ AddItemDone
    \/ HandleSaveReport
    \/ SaveReturns

SpecAsync == AsyncInit /\ [][AsyncNext]_vars

-----------------------------------------------------------------------------
(* The identifiers: strings given to the load, and strings the generators   *)
(* build                                                                     *)

InputChars == {"0", "a", "F", "g", "Z", "-"}

\* Strings the load may be given: strings of the generated form with one
\* character replaced, one character less or one more, and short strings
InputTexts ==
    {[UuidText(r) EXCEPT ![p] = c] :
        r \in {1, 10}, p \in DOMAIN UuidTemplate, c \in InputChars}
    \cup {SubSeq(UuidText(1), 1, Len(UuidTemplate) - 1), SubSeq(UuidText(1), 2, Len(UuidTemplate))}
    \cup {Append(UuidText(1), c) : c \in InputChars}
    \cup {<<c>> \o UuidText(1) : c \in InputChars}
    \cup {[i \in DOMAIN UuidTemplate |-> ToLower(c)] : c \in InputChars}
    \cup {Repeat(c, n) : c \in InputChars, n \in {0, 1, ShortIdLength}}

\* generateShortId: let result = ''
GenerateShortIdStart ==
    /\ keyPc = "input"
    /\ text' = << >>
    /\ keyPc' = "generateShortId"
    /\ UNCHANGED <<docVars, storeVars, appVars, genVars>>

\* generateShortId: one turn of the loop
GenerateShortIdChar ==
    /\ keyPc = "generateShortId"
    /\ Len(text) < ShortIdLength
    /\ \E c \in ShortIdChars : text' = Append(text, c)
    /\ UNCHANGED <<keyPc, docVars, storeVars, appVars, genVars>>

\* generateUUID, by crypto.randomUUID or by the replace of the template
GenerateUUIDText ==
    /\ keyPc = "input"
    /\ \E r \in 0..15 : text' = UuidText(r)
    /\ keyPc' = "generateUUID"
    /\ UNCHANGED <<docVars, storeVars, appVars, genVars>>

KeysInit ==
    /\ text \in InputTexts
    /\ keyPc = "input"
    /\ inspection = NoProfile
    /\ activeSectionId = NullId
    /\ cameraTarget = NoTarget
    /\ analyzingItemId = NullId
    /\ analyses = {}
    /\ isLoading = FALSE
    /\ pending = Idle
    /\ now = 1
    /\ steps = 0
    /\ budget = 0
    /\ lastCall = Call("none", NullId, NullId)
    /\ StoreIdle
    /\ AppIdle
    /\ GenIdle

KeysNext ==
    \/ GenerateShortIdStart
    \/ GenerateShortIdChar
    \/ GenerateUUIDText

SpecKeys == KeysInit /\ [][KeysNext]_vars

-----------------------------------------------------------------------------
(* Section status (C1, C2) and calls with ids that match nothing (C3) *)

AllDone(sec) == \A j \in DOMAIN sec.items : sec.items[j].status # "untouched"
SomeDone(sec) == \E j \in DOMAIN sec.items : sec.items[j].status # "untouched"
AllUntouched(sec) == \A j \in DOMAIN sec.items : sec.items[j].status = "untouched"

\* The sections of the document that carry the id
SectionsWithId(doc, sectionId) ==
    {k \in DOMAIN doc.sections : doc.sections[k].id = sectionId}

\* C1: in every reachable state each section's stored status is completed
\* iff every item is non-untouched, in-progress iff some but not all are,
\* pending iff none is.  For a section without items the three conditions
\* cannot hold together, so the statement is taken over the sections that
\* have an item.
C1_StoredStatusIsDerived ==
    inspection # NoProfile =>
        \A k \in DOMAIN inspection.sections :
            LET sec == inspection.sections[k]
            IN  Len(sec.items) > 0 =>
                    /\ sec.status = "completed" <=> AllDone(sec)
                    /\ sec.status = "in-progress" <=> (SomeDone(sec) /\ ~AllDone(sec))
                    /\ sec.status = "pending" <=> ~SomeDone(sec)

JustUpdatedStatus(k) ==
    /\ inspection # NoProfile
    /\ lastCall.op = "updateItemStatus"
    /\ k \in SectionsWithId(inspection, lastCall.sectionId)

\* C2 as stated: right after updateItemStatus the targeted section is
\* completed iff all its items are non-untouched, pending iff all its items
\* are untouched, in-progress otherwise, a section with no items included.
C2_StatusAfterUpdate_AsStated ==
    inspection # NoProfile =>
        \A k \in DOMAIN inspection.sections :
            JustUpdatedStatus(k) =>
                LET sec == inspection.sections[k]
                IN  /\ sec.status = "completed" <=> AllDone(sec)
                    /\ sec.status = "pending" <=> AllUntouched(sec)
                    /\ sec.status = "in-progress" <=> (~AllDone(sec) /\ ~AllUntouched(sec))

\* C2 amended: right after updateItemStatus the targeted section is
\* completed iff all its items (hidden ones included) are non-untouched,
\* which includes the section with no items; pending iff it has an item and
\* all its items are untouched; in-progress otherwise.
C2_StatusAfterUpdate ==
    inspection # NoProfile =>
        \A k \in DOMAIN inspection.sections :
            JustUpdatedStatus(k) =>
                LET sec == inspection.sections[k]
                IN  /\ sec.status = "completed" <=> AllDone(sec)
                    /\ sec.status = "pending" <=> (AllUntouched(sec) /\ Len(sec.items) > 0)
                    /\ sec.status = "in-progress" <=> (~AllDone(sec) /\ ~AllUntouched(sec))

\* C2 witness: a section of two items, one of them hidden and untouched, the
\* other set by the call, is in-progress
C2_Witness ==
    /\ inspection # NoProfile
    /\ \E k \in DOMAIN inspection.sections :
          /\ JustUpdatedStatus(k)
          /\ Len(inspection.sections[k].items) = 2
          /\ inspection.sections[k].status = "in-progress"
          /\ \E j \in 1..2 : /\ IsHidden(inspection.sections[k].items[j])
                             /\ inspection.sections[k].items[j].status = "untouched"

Mutators == {"updateItemStatus", "updateItemOption", "updateItemNote",
             "toggleItemVisibility", "handleCapturePhoto", "deletePhoto"}

\* sectionId matches no section, or itemId (when the call has one) matches
\* no item of a section with that id
MatchesNothing(doc, sectionId, itemId) ==
    \/ SectionsWithId(doc, sectionId) = {}
    \/ /\ itemId # UndefId
       /\ \A k \in SectionsWithId(doc, sectionId) : ~HasItem(doc.sections[k], itemId)

\* C3: a mutation called with a sectionId that matches no section, or an
\* itemId that matches no item of the named section, leaves the whole
\* document unchanged, the status of the named section included.
C3_MissingIdsAreNoOps ==
    [][(/\ steps' = steps + 1
        /\ lastCall'.op \in Mutators
        /\ inspection # NoProfile
        /\ MatchesNothing(inspection, lastCall'.sectionId, lastCall'.itemId))
       => inspection' = inspection]_vars

-----------------------------------------------------------------------------
(* The save (C4 - C8) *)

RemoteInteractions == {"auth.getUser", "upsert"}

\* The save that ended did, or attempted, the local write
WroteLocally == \E j \in DOMAIN save.log : save.log[j] = "localStorage"

\* C4: every save attempts the local-store write first, before any
\* interaction with the remote backend, and the outcome of the save (success
\* or failure, the keys returned) is the same whether that write succeeded
\* or failed.
C4_LocalWriteFirst ==
    /\ \A i \in DOMAIN save.log :
          save.log[i] \in RemoteInteractions =>
              \E j \in 1..(i - 1) : save.log[j] = "localStorage"
    /\ save.pc = "returned" => WroteLocally
    /\ save.pc = "returned" =>
          save.result = IF ~supabase \/ save.upsert \in {"ok", "42501", "42P01", "PGRST204"}
                        THEN Fulfilled(save.uuid, save.shortId)
                        ELSE Rejected

UpsertFailed == save.upsert \notin {"none", "ok"}

\* C5: when the upsert fails, the save reports success with the locally
\* chosen keys iff the code is 42501 (permission denied), 42P01 (table
\* missing) or PGRST204 (column missing); after any other error or an
\* exception the save fails, returns no keys, and the profile in memory
\* keeps the keys it had when the save began.
C5_UpsertFailureClassified ==
    /\ (save.pc \in {"returned", "idle"} /\ UpsertFailed) =>
          /\ save.result.state = "fulfilled" <=> save.upsert \in {"42501", "42P01", "PGRST204"}
          /\ save.result.state = "fulfilled" =>
                 save.result.uuid = save.uuid /\ save.result.shortId = save.shortId
          /\ save.result.state # "fulfilled" =>
                 /\ save.result.state = "rejected"
                 /\ ~HasValue(save.result.uuid) /\ ~HasValue(save.result.shortId)
    /\ (lastCall.op = "handleSaveReport.then" /\ UpsertFailed
           /\ save.result.state = "rejected") =>
          /\ inspection.savedReportId = save.report.savedReportId
          /\ inspection.shortId = save.report.shortId

\* C5 witness: the upsert of a document that had keys failed with another
\* error, the handler ran on, and the document has its keys still
C5_Witness ==
    /\ lastCall.op = "handleSaveReport.then"
    /\ save.upsert \in {"other", "throw"}
    /\ save.report.savedReportId = "U1"
    /\ inspection.savedReportId = "U1"

\* C6: whenever a save reports success after a recoverable failure of the
\* upsert, the saved profile is in the local store under the returned
\* primary key, and a load by that key or by the returned short key gives
\* it back, whatever the remote backend answers.
C6_RecoverableSaveIsReadable ==
    (save.pc = "returned" /\ save.upsert \in {"42501", "42P01", "PGRST204"}) =>
        /\ localStorage.kind = "json"
        /\ save.result.uuid \in Keys(localStorage.map)
        /\ Lookup(localStorage.map, save.result.uuid).data = save.payload
        /\ \A id \in {save.result.uuid, save.result.shortId}, mode \in RemoteModes :
              LoadReportFromSupabase(id, mode, TRUE) = Return(save.payload)

\* The profile as saved under the keys the save returned
SavedProfile ==
    [save.report EXCEPT !.savedReportId = save.result.uuid,
                        !.shortId = save.result.shortId]

C8_KeysAreReused ==
    save.pc # "idle" =>
        /\ HasValue(save.report.savedReportId) => save.uuid = save.report.savedReportId
        /\ HasValue(save.report.shortId) => save.shortId = save.report.shortId
        /\ HasValue(save.uuid) /\ HasValue(save.shortId)
        /\ (save.pc \in {"upsert", "returned"} /\ save.localOk) =>
              /\ localStorage.kind = "json"
              /\ save.uuid \in Keys(localStorage.map)
              /\ Lookup(localStorage.map, save.uuid).data.savedReportId = save.uuid
              /\ Lookup(localStorage.map, save.uuid).data.shortId = save.shortId
        /\ (save.pc = "returned" /\ save.upsert = "ok") =>
              /\ save.uuid \in DOMAIN remoteTable
              /\ remoteTable[save.uuid].short_id = save.shortId
              /\ remoteTable[save.uuid].data.savedReportId = save.uuid
              /\ remoteTable[save.uuid].data.shortId = save.shortId
        /\ savedAs # NoKeys =>
              save.uuid = savedAs.uuid /\ save.shortId = savedAs.shortId

\* C8 witness: a document with a primary key and no short key was saved,
\* and the upsert went through
C8_Witness ==
    /\ save.pc = "returned"
    /\ save.upsert = "ok"
    /\ save.localOk
    /\ save.report.savedReportId = "U1"
    /\ ~HasValue(save.report.shortId)

\* A later save of a document that a save through the handler gave its keys
C8_LaterSave ==
    /\ save.pc = "returned"
    /\ savedAs # NoKeys
    /\ steps > 4

-----------------------------------------------------------------------------
(* The load (C9, C10) *)

HasShortId(map, id) == \E i \in DOMAIN map : map[i].data.shortId = id

\* C9: when the remote backend misses, answers with an error or throws, the
\* load gives what the local store holds: for a primary-key-shaped id the
\* record under that key, for any other id a record whose embedded short
\* key is the id.
C9_LoadFallsThroughToLocal ==
    (supabase /\ localStorage.kind = "json") =>
        \A id \in LoadIds, mode \in RemoteModes :
            (mode = "answer" => MatchingRows(remoteTable, id) = {}) =>
                LET loaded == LoadReportFromSupabase(id, mode, TRUE)
                    map == localStorage.map
                IN  /\ (IsUuid(id) /\ id \in Keys(map)) =>
                           loaded = Return([Lookup(map, id).data EXCEPT !.savedReportId = id])
                    /\ (~IsUuid(id) /\ HasShortId(map, id)) =>
                           /\ loaded.kind = "return"
                           /\ loaded.value # NoProfile
                           /\ \E i \in DOMAIN map :
                                 map[i].data.shortId = id /\ loaded.value = map[i].data

\* C9 witness: the app loaded a report that the remote table does not have
C9_Witness ==
    /\ supabase
    /\ lastCall.op = "checkUrlForReport"
    /\ inspection # NoProfile
    /\ inspection.savedReportId \notin DOMAIN remoteTable
    /\ MatchingRows(remoteTable, inspection.shortId) = {}

InLocalStore(id) ==
    /\ localStorage.kind = "json"
    /\ id \in Keys(localStorage.map) \/ HasShortId(localStorage.map, id)

\* C10: a load with an id that neither the remote table nor the local store
\* has returns null and does not throw, whatever the id, whatever the
\* remote backend does, and whether the storage is unreadable or holds
\* unparseable text.
C10_UnknownIdIsNotFound ==
    \A id \in LoadIds, mode \in RemoteModes, getOk \in BOOLEAN :
        (MatchingRows(remoteTable, id) = {} /\ ~InLocalStore(id)) =>
            LoadReportFromSupabase(id, mode, getOk) = Return(NoProfile)

\* C10 witness: the app ran the load on a remote table without rows and a
\* storage with unparseable text, and has no document
C10_Witness ==
    /\ lastCall.op = "checkUrlForReport"
    /\ supabase
    /\ remoteTable = << >>
    /\ localStorage.kind = "corrupt"
    /\ inspection = NoProfile

-----------------------------------------------------------------------------
(* The shape of the identifiers (C11) *)

DashPlaces == {9, 14, 19, 24}
HexOfEitherCase == HexClass \cup {"A", "B", "C", "D", "E", "F"}

\* The 36 characters in the groups 8-4-4-4-12, hex digits between dashes
HasUuidShape(str) ==
    /\ Len(str) = 36
    /\ \A p \in DOMAIN str :
          IF p \in DashPlaces THEN str[p] = "-" ELSE str[p] \in HexOfEitherCase

\* C11: the load queries by primary key iff the identifier has the 36
\* character 8-4-4-4-12 hex shape, and by short key otherwise; every string
\* generateUUID gives has that shape, and no string of 9 characters that
\* generateShortId gives has it.
C11_KeyFormByShape ==
    /\ QueryColumn(text) = "id" <=> HasUuidShape(text)
    /\ QueryColumn(text) = "short_id" <=> ~HasUuidShape(text)
    /\ keyPc = "generateUUID" => QueryColumn(text) = "id"
    /\ (keyPc = "generateShortId" /\ Len(text) = ShortIdLength) =>
           QueryColumn(text) = "short_id"
    /\ \A key \in Uuids : IsUuid(key)
    /\ \A key \in ShortIds : ~IsUuid(key)

\* C11 witness: generateShortId has built its 9 characters, hex digits all
C11_Witness ==
    /\ keyPc = "generateShortId"
    /\ Len(text) = ShortIdLength
    /\ \A p \in DOMAIN text : text[p] \in HexOfEitherCase

\* An identifier in capital hex digits is under the test
C11_CapitalInput ==
    /\ keyPc = "input"
    /\ HasUuidShape(text)
    /\ \E p \in DOMAIN text : text[p] = "F"

-----------------------------------------------------------------------------
(* Progress (C12) *)

\* The items that are not hidden, wherever they are in the document
VisibleSet(doc) ==
    {<<k, j>> \in (DOMAIN doc.sections) \X (1..MaxItems) :
        /\ j \in DOMAIN doc.sections[k].items
        /\ doc.sections[k].items[j].isHidden # "true"}

StatusAt(doc, place) == doc.sections[place[1]].items[place[2]].status

NoVisibleTouched(doc) ==
    \A place \in VisibleSet(doc) : StatusAt(doc, place) = "untouched"
NoVisibleUntouched(doc) ==
    \A place \in VisibleSet(doc) : StatusAt(doc, place) # "untouched"

\* C12 as stated: calculateProgress is a function of the document, is 0
\* whenever all visible items are untouched and 100 whenever all visible
\* items are non-untouched, documents without a visible item included.
C12_ProgressEnds_AsStated ==
    inspection # NoProfile =>
        /\ NoVisibleTouched(inspection) => CalculateProgress(inspection) = 0
        /\ NoVisibleUntouched(inspection) => CalculateProgress(inspection) = 100

\* C12 amended: calculateProgress is a function of the document, is 0
\* whenever all visible items are untouched, which includes the document
\* without a visible item, and 100 whenever the document has a visible item
\* and all its visible items are non-untouched.
C12_ProgressEnds ==
    inspection # NoProfile =>
        /\ NoVisibleTouched(inspection) => CalculateProgress(inspection) = 0
        /\ (NoVisibleUntouched(inspection) /\ VisibleSet(inspection) # {}) =>
               CalculateProgress(inspection) = 100

\* C12 witness: every visible item is set, an untouched item is hidden
C12_Witness ==
    /\ inspection # NoProfile
    /\ VisibleSet(inspection) # {}
    /\ NoVisibleUntouched(inspection)
    /\ \E k \in DOMAIN inspection.sections : \E j \in DOMAIN inspection.sections[k].items :
          /\ IsHidden(inspection.sections[k].items[j])
          /\ inspection.sections[k].items[j].status = "untouched"

-----------------------------------------------------------------------------
(* Hiding an item *)

\* The places (section index, item index) of a document
Places(doc) ==
    {p \in (DOMAIN doc.sections) \X (1..MaxItems) :
        p[2] \in DOMAIN doc.sections[p[1]].items}

ItemAt(doc, p) == doc.sections[p[1]].items[p[2]]

\* The document without the item at place p
WithoutItem(doc, p) ==
    [doc EXCEPT !.sections[p[1]].items =
        [r \in 1..(Len(@) - 1) |-> IF r < p[2] THEN @[r] ELSE @[r + 1]]]

\* The step just taken addressed the item at place p with toggleItemVisibility
Toggled(p) ==
    /\ lastCall'.op = "toggleItemVisibility"
    /\ inspection # NoProfile
    /\ p \in Places(inspection)
    /\ inspection.sections[p[1]].id = lastCall'.sectionId
    /\ ItemAt(inspection, p).id = lastCall'.itemId

\* C13: a step that hides an item changes the isHidden flag of that item and
\* nothing else in the document (its status, notes, photos and selected
\* option, the other items and the status of every section stay), and
\* afterwards calculateProgress and the summary counts are those of the
\* document without the item.
C13_HidingIsFramed ==
    [][\A p \in (1..MaxSections) \X (1..MaxItems) :
          Toggled(p) /\ IsHidden(ItemAt(inspection', p)) =>
              /\ inspection' = [inspection EXCEPT
                                   !.sections[p[1]].items[p[2]].isHidden = "true"]
              /\ CalculateProgress(inspection') =
                     CalculateProgress(WithoutItem(inspection', p))
              /\ SummaryCounts(inspection') =
                     SummaryCounts(WithoutItem(inspection', p))]_vars

\* A touched item has just been hidden while another item is still shown
C13_Witness ==
    /\ lastCall.op = "toggleItemVisibility"
    /\ inspection # NoProfile
    /\ \E p \in Places(inspection) :
          /\ inspection.sections[p[1]].id = lastCall.sectionId
          /\ ItemAt(inspection, p).id = lastCall.itemId
          /\ IsHidden(ItemAt(inspection, p))
          /\ Touched(ItemAt(inspection, p))
    /\ TotalItems(inspection) > 0

-----------------------------------------------------------------------------
(* Hiding and showing again *)

\* The document with the item at place p shown
ShownAt(doc, p) == [doc EXCEPT !.sections[p[1]].items[p[2]].isHidden = "false"]

\* The document with every item of section k shown
SectionShown(doc, k) ==
    [doc EXCEPT !.sections[k].items =
        [j \in DOMAIN @ |-> [@[j] EXCEPT !.isHidden = "false"]]]

\* The step just taken hid the item at place p, which was shown
JustHid(p) ==
    /\ Toggled(p)
    /\ Visible(ItemAt(inspection, p))
    /\ IsHidden(ItemAt(inspection', p))

\* The step just taken showed the item at place p, which was hidden
JustShown(p) ==
    /\ Toggled(p)
    /\ IsHidden(ItemAt(inspection, p))
    /\ Visible(ItemAt(inspection', p))

\* The step just taken was the bulk recovery of section k
JustShownAll(k) ==
    /\ lastCall'.op = "showAllHidden"
    /\ k \in DOMAIN inspection.sections
    /\ inspection.sections[k].id = lastCall'.sectionId

\* C14 as stated: after an item has been hidden, showing it again, by itself
\* or with the bulk recovery of its section, gives back the item as it was
\* before it was hidden.
C14_HideShowRoundTrip_AsStated ==
    [][\A p \in (1..MaxSections) \X (1..MaxItems) :
          JustHid(p) =>
              /\ ItemAt(SetVisibility(inspection', lastCall'.sectionId,
                                      lastCall'.itemId, "false"), p)
                     = ItemAt(inspection, p)
              /\ ItemAt(ShowAll(inspection', lastCall'.sectionId), p)
                     = ItemAt(inspection, p)]_vars

\* C14: after a shown item has been hidden, showing it again, by itself or
\* with the bulk recovery of its section, gives back the item as it was before
\* it was hidden, except that its isHidden flag is false (also where the flag
\* was absent before); showing one item changes nothing else in the document;
\* the bulk recovery sets the flag of every item of that one section to false
\* and leaves every other section as it was.
C14_HideShowRoundTrip ==
    [][/\ \A p \in (1..MaxSections) \X (1..MaxItems) :
            /\ JustHid(p) =>
                  /\ SetVisibility(inspection', lastCall'.sectionId,
                                   lastCall'.itemId, "false")
                         = ShownAt(inspection, p)
                  /\ ShowAll(inspection', lastCall'.sectionId)
                         = SectionShown(inspection, p[1])
            /\ JustShown(p) => inspection' = ShownAt(inspection, p)
       /\ \A k \in 1..MaxSections :
            JustShownAll(k) => inspection' = SectionShown(inspection, k)]_vars

\* The bulk recovery has just shown a touched item again, in a document with
\* a second section
C14_Witness ==
    /\ lastCall.op = "showAllHidden"
    /\ inspection # NoProfile
    /\ Len(inspection.sections) = 2
    /\ \E p \in Places(inspection) :
          /\ inspection.sections[p[1]].id = lastCall.sectionId
          /\ ItemAt(inspection, p).isHidden = "false"
          /\ Touched(ItemAt(inspection, p))

\* One item has just been shown again by itself
C14_ShownAlone ==
    /\ lastCall.op = "toggleItemVisibility"
    /\ inspection # NoProfile
    /\ \E p \in Places(inspection) :
          /\ inspection.sections[p[1]].id = lastCall.sectionId
          /\ ItemAt(inspection, p).id = lastCall.itemId
          /\ ItemAt(inspection, p).isHidden = "false"
          /\ Touched(ItemAt(inspection, p))

-----------------------------------------------------------------------------
(* Photos *)

\* The places of the items a call with (sectionId, itemId) addresses
Addressed(doc, sectionId, itemId) ==
    {p \in Places(doc) : /\ doc.sections[p[1]].id = sectionId
                         /\ ItemAt(doc, p).id = itemId}

PhotosAt(doc, p) == ItemAt(doc, p).photos

\* C15: a captured photo for a target with an item id is appended at the end
\* of the photo list of that item and nothing else in the document changes;
\* a captured photo for a target without item id replaces the cover photo of
\* that section and nothing else in the document changes, so that no photo
\* list of an item changes.
C15_CaptureAppendsOrCovers ==
    [][lastCall'.op = "handleCapturePhoto" =>
          \E imageData \in Images :
              IF lastCall'.itemId # UndefId
              THEN \E p \in Addressed(inspection, lastCall'.sectionId, lastCall'.itemId) :
                      /\ inspection' = [inspection EXCEPT
                             !.sections[p[1]].items[p[2]].photos = Append(@, imageData)]
                      /\ PhotosAt(inspection', p)[Len(PhotosAt(inspection', p))] = imageData
                      /\ SubSeq(PhotosAt(inspection', p), 1, Len(PhotosAt(inspection, p)))
                             = PhotosAt(inspection, p)
              ELSE \E k \in DOMAIN inspection.sections :
                      /\ inspection.sections[k].id = lastCall'.sectionId
                      /\ inspection' = [inspection EXCEPT !.sections[k].photoUrl = imageData]
                      /\ \A p \in Places(inspection) :
                             PhotosAt(inspection', p) = PhotosAt(inspection, p)]_vars

\* A second, different photo has just been added to an item
C15_Witness ==
    /\ lastCall.op = "handleCapturePhoto"
    /\ lastCall.itemId # UndefId
    /\ \E p \in Addressed(inspection, lastCall.sectionId, lastCall.itemId) :
          /\ Len(PhotosAt(inspection, p)) >= 2
          /\ PhotosAt(inspection, p)[1] # PhotosAt(inspection, p)[Len(PhotosAt(inspection, p))]

\* A cover photo has just been taken in a document with a photo on an item
C15_CoverTaken ==
    /\ lastCall.op = "handleCapturePhoto"
    /\ lastCall.itemId = UndefId
    /\ \E k \in DOMAIN inspection.sections : inspection.sections[k].photoUrl \in Images
    /\ \E p \in Places(inspection) : PhotosAt(inspection, p) # << >>

\* The list without its entry at the 0-based index
WithoutIndex(photos, photoIndex) ==
    [r \in 1..(Len(photos) - 1) |->
        IF r <= photoIndex THEN photos[r] ELSE photos[r + 1]]

\* What the claim expects of removePhoto
Removed(doc, p, photoIndex) ==
    IF photoIndex < Len(PhotosAt(doc, p))
    THEN [doc EXCEPT !.sections[p[1]].items[p[2]].photos = WithoutIndex(@, photoIndex)]
    ELSE doc

\* The indexes deletePhoto may have been called with, given the step taken
IndexesOf(p) ==
    {photoIndex \in 0..MaxPhotos : inspection' = Removed(inspection, p, photoIndex)}

\* C16: deletePhoto with an index within the photo list of the item removes
\* the photo at that index, keeps the other photos in their order and changes
\* nothing else; with an index outside the list it leaves the document as it
\* is.
C16_DeleteRemovesOne ==
    [][lastCall'.op = "deletePhoto" =>
          \A p \in Addressed(inspection, lastCall'.sectionId, lastCall'.itemId) :
              /\ \A photoIndex \in 0..MaxPhotos :
                     RemovePhoto(inspection, lastCall'.sectionId, lastCall'.itemId,
                                 photoIndex)
                        = Removed(inspection, p, photoIndex)
              /\ IndexesOf(p) # {}]_vars

\* The first step has deleted one photo of three: two different photos are
\* left, in their order
C16_Witness ==
    /\ lastCall.op = "deletePhoto"
    /\ steps = 1
    /\ \E p \in Addressed(inspection, lastCall.sectionId, lastCall.itemId) :
          /\ Len(PhotosAt(inspection, p)) = 2
          /\ PhotosAt(inspection, p) = <<"img1", "img2">>

\* deletePhoto has just been called on an item without photos
C16_OutOfRange ==
    /\ lastCall.op = "deletePhoto"
    /\ steps = 1
    /\ \E p \in Addressed(inspection, lastCall.sectionId, lastCall.itemId) :
          PhotosAt(inspection, p) = << >>

-----------------------------------------------------------------------------
(* The figures of the Inspection Summary *)

\* The places of the visible items with a status among `statuses`
VisibleWith(doc, statuses) ==
    {p \in Places(doc) : Visible(ItemAt(doc, p)) /\ ItemAt(doc, p).status \in statuses}

\* C17: over the visible items, total is their number, passed the number of
\* those with status pass, issues the number of those with status attention,
\* moderate or dangerous, and remaining is total - passed - issues - info;
\* remaining is never negative and is the number of visible untouched items.
C17_SummaryCounts ==
    inspection # NoProfile =>
        /\ TotalItems(inspection) = Cardinality(VisibleWith(inspection, ItemStatus))
        /\ Passed(inspection) = Cardinality(VisibleWith(inspection, {"pass"}))
        /\ IssuesFound(inspection) =
               Cardinality(VisibleWith(inspection, {"attention", "moderate", "dangerous"}))
        /\ Remaining(inspection) =
               TotalItems(inspection) - Passed(inspection) - IssuesFound(inspection)
                   - Cardinality(VisibleWith(inspection, {"info"}))
        /\ Remaining(inspection) >= 0
        /\ Remaining(inspection) = Cardinality(VisibleWith(inspection, {"untouched"}))

\* A document with a visible item marked info, a visible item with an issue,
\* a hidden item and an item left to inspect
C17_Witness ==
    /\ inspection # NoProfile
    /\ VisibleWith(inspection, {"info"}) # {}
    /\ VisibleWith(inspection, IssueStatus) # {}
    /\ \E p \in Places(inspection) : IsHidden(ItemAt(inspection, p))
    /\ Remaining(inspection) = 1

-----------------------------------------------------------------------------
(* Growth of the document *)

Growing == inspection # NoProfile /\ inspection' # NoProfile

\* C18: under every step on a profile, the sections that exist stay at their
\* places with their ids, the items that exist stay at their places in their
\* sections with their ids, so that nothing is removed or reordered and what
\* is appended comes after what exists, and createdAt keeps its value.
C18_DocumentOnlyGrows ==
    [][Growing =>
          /\ inspection'.createdAt = inspection.createdAt
          /\ Len(inspection'.sections) >= Len(inspection.sections)
          /\ \A k \in DOMAIN inspection.sections :
                LET before == inspection.sections[k]
                    after == inspection'.sections[k]
                IN  /\ after.id = before.id
                    /\ Len(after.items) >= Len(before.items)
                    /\ \A j \in DOMAIN before.items :
                           after.items[j].id = before.items[j].id]_vars

\* A save has come back and set the keys of a document that holds a section
\* appended after the plan
C18_Witness ==
    /\ lastCall.op = "handleSaveReport.then"
    /\ inspection # NoProfile
    /\ inspection.savedReportId # UNDEF
    /\ \E k \in DOMAIN inspection.sections : inspection.sections[k].id[1] = "section-custom"

\* Items have just been appended to a section that had an item
C18_ItemsAppended ==
    /\ lastCall.op = "handleAddItem.then"
    /\ inspection # NoProfile
    /\ \E k \in DOMAIN inspection.sections :
          /\ inspection.sections[k].id = lastCall.sectionId
          /\ Len(inspection.sections[k].items) = 2
          /\ inspection.sections[k].items[1].id[1] = "item"
          /\ inspection.sections[k].items[2].id[1] = "item-added"

\* No two places of a sequence of entities hold the same id
DistinctIds(entities) ==
    \A i \in DOMAIN entities, j \in DOMAIN entities :
        entities[i].id = entities[j].id => i = j

\* C19: in every document the ids of the sections are pairwise distinct and,
\* within each section, the ids of its items are pairwise distinct.
C19_IdsAreDistinct ==
    inspection # NoProfile =>
        /\ DistinctIds(inspection.sections)
        /\ \A k \in DOMAIN inspection.sections : DistinctIds(inspection.sections[k].items)

-----------------------------------------------------------------------------
(* The patch of a finished image analysis *)

\* The document with the notes of the item at place p replaced
WithNotes(doc, p, notes) == [doc EXCEPT !.sections[p[1]].items[p[2]].notes = notes]

\* C20 as stated: the patch a finished image analysis applies changes the notes of the
\* item its (sectionId, itemId) addresses and nothing else in the document,
\* and applying the same patch to the patched document changes nothing more.
C20_AiPatchTargeted_AsStated ==
    [][lastCall'.op = "processImageAnalysis" /\ inspection # NoProfile =>
          \E description \in Descriptions :
              /\ inspection' = PatchAiNote(inspection, lastCall'.sectionId,
                                           lastCall'.itemId, description)
              /\ \A p \in Addressed(inspection, lastCall'.sectionId, lastCall'.itemId) :
                     inspection' = WithNotes(inspection, p,
                                             ItemAt(inspection', p).notes)
              /\ PatchAiNote(inspection', lastCall'.sectionId,
                             lastCall'.itemId, description) = inspection']_vars

\* C20: the patch a finished image analysis applies changes the notes of the
\* item its (sectionId, itemId) addresses and nothing else in the document:
\* empty notes become the description, other notes are extended by the AI
\* note line; applying the same patch to the patched document extends the
\* notes by the AI note line once more, unless they are still empty.
C20_AiPatchTargeted ==
    [][lastCall'.op = "processImageAnalysis" /\ inspection # NoProfile =>
          \E description \in Descriptions :
              /\ inspection' = PatchAiNote(inspection, lastCall'.sectionId,
                                           lastCall'.itemId, description)
              /\ \A p \in Addressed(inspection, lastCall'.sectionId, lastCall'.itemId) :
                     LET before == ItemAt(inspection, p).notes
                         once == ItemAt(inspection', p).notes
                     IN  /\ inspection' = WithNotes(inspection, p, once)
                         /\ once = IF before = << >> THEN description
                                   ELSE before \o <<AiNotePrefix>> \o description
                         /\ PatchAiNote(inspection', lastCall'.sectionId,
                                        lastCall'.itemId, description)
                                = WithNotes(inspection', p,
                                            IF once = << >> THEN description
                                            ELSE once \o <<AiNotePrefix>> \o description)]_vars

\* An analysis has just set the empty notes of an item to its description
C20_Witness ==
    /\ lastCall.op = "processImageAnalysis"
    /\ inspection # NoProfile
    /\ \E p \in Addressed(inspection, lastCall.sectionId, lastCall.itemId) :
          /\ ItemAt(inspection, p).notes = <<"d">>
          /\ ItemAt(inspection, p).photos # << >>

-----------------------------------------------------------------------------
(* The frame of updateItemStatus *)

\* C23: updateItemStatus on an item of the document changes the status of
\* that item and the stored status of its section and nothing else: the other
\* sections, the other items of the section, and the notes, photos, selected
\* option and isHidden flag of the item stay as they were.
C23_StatusUpdateIsFramed ==
    [][lastCall'.op = "updateItemStatus" /\ inspection # NoProfile =>
          \A p \in Addressed(inspection, lastCall'.sectionId, lastCall'.itemId) :
              inspection' =
                  [inspection EXCEPT
                      !.sections[p[1]].status = inspection'.sections[p[1]].status,
                      !.sections[p[1]].items[p[2]].status =
                          ItemAt(inspection', p).status]]_vars

\* The status of an item with notes has just been set, in a document with a
\* second section and a second item in the section
C23_Witness ==
    /\ lastCall.op = "updateItemStatus"
    /\ inspection # NoProfile
    /\ Len(inspection.sections) = 2
    /\ \E p \in Addressed(inspection, lastCall.sectionId, lastCall.itemId) :
          /\ ItemAt(inspection, p).status = "pass"
          /\ ItemAt(inspection, p).notes # << >>
          /\ Len(inspection.sections[p[1]].items) = 2

-----------------------------------------------------------------------------
(* The ends of the progress scale *)

\* The places of the visible items, for a section of any length
VisiblePlaces(doc) ==
    {p \in (DOMAIN doc.sections) \X (1..MaxLongSection) :
        /\ p[2] \in DOMAIN doc.sections[p[1]].items
        /\ Visible(ItemAt(doc, p))}

\* C30: calculateProgress is 100 only if every visible item is non-untouched
\* and 0 only if every visible item is untouched, however many visible items
\* there are; so the dashboard offers "Finalize" only for a document whose
\* visible items have all been inspected.
C30_ProgressEndsOnlyAtEnds ==
    inspection # NoProfile =>
        /\ CalculateProgress(inspection) = 100 =>
               \A p \in VisiblePlaces(inspection) : Touched(ItemAt(inspection, p))
        /\ CalculateProgress(inspection) = 0 =>
               \A p \in VisiblePlaces(inspection) : ~Touched(ItemAt(inspection, p))
        /\ FinalizeOffered(inspection) =>
               \A p \in VisiblePlaces(inspection) : Touched(ItemAt(inspection, p))

-----------------------------------------------------------------------------
(* The generation service degrades (C22) *)

\* The array a response reads as: the elements, or none where it reads as no array
ArrayOf(resp) ==
    IF resp.kind # "text" THEN [array |-> FALSE]
    ELSE IF resp.text \in {MissingText, EmptyText} THEN [array |-> TRUE, elems |-> << >>]
    ELSE IF resp.text.json.t = "array" THEN [array |-> TRUE, elems |-> resp.text.json.elems]
    ELSE [array |-> FALSE]

PlanAnswerDegrades ==
    \/ answer.result.value = FallbackPlan
    \/ /\ ArrayOf(response).array
       /\ Len(answer.result.value) = Len(ArrayOf(response).elems)
       /\ \A k \in 1..Len(answer.result.value) :
             /\ answer.result.value[k].id = <<"section", k - 1, answer.at>>
             /\ answer.result.value[k].status = "pending"
             /\ \A i \in 1..Len(answer.result.value[k].items) :
                   answer.result.value[k].items[i] = NewItem(<<"item", k - 1, i - 1>>)

SectionAnswerDegrades ==
    \/ answer.result.value = NoSection
    \/ /\ response.kind = "text"
       /\ answer.result.value.id = <<"section-custom", answer.at>>
       /\ answer.result.value.status = "pending"

ItemsAnswerDegrades ==
    \/ answer.result.value = << >>
    \/ /\ ArrayOf(response).array
       /\ Len(answer.result.value) = Len(ArrayOf(response).elems)
       /\ \A i \in 1..Len(answer.result.value) :
             answer.result.value[i] = NewItem(<<"item-added", answer.at, i - 1>>)

AnalysisAnswerDegrades ==
    \/ answer.result.value = AnalyzedImage
    \/ /\ response.kind = "text"
       /\ response.text # MissingText
       /\ answer.result.value \in ResponseTexts

\* C22: whatever generateContent answers (a rejection, no text, a text that
\* does not parse, JSON of the wrong shape), no generation function throws:
\* the plan is built from the response or is the fixed checklist, the single
\* section is a section or null, the item list is built from the response or
\* empty, and the image analysis is a text.
C22_GenerationDegrades ==
    answer # NoAnswer =>
        /\ answer.result.kind = "return"
        /\ answer.fn = "generateInspectionPlan" => PlanAnswerDegrades
        /\ answer.fn = "generateSingleSection" => SectionAnswerDegrades
        /\ answer.fn = "generateSectionItems" => ItemsAnswerDegrades
        /\ answer.fn = "analyzeInspectionImage" => AnalysisAnswerDegrades

\* Valid JSON of the wrong shape was answered with the fixed checklist
C22_Witness ==
    /\ answer # NoAnswer
    /\ answer.fn = "generateInspectionPlan"
    /\ response = [kind |-> "text", text |-> Text(JArray(<<JObject(JString)>>), TRUE)]
    /\ answer.result = Returned(FallbackPlan)

-----------------------------------------------------------------------------
(* The startup with ?id= (C21) *)

\* C21: when the app starts with a report id in the URL, no view other than
\* the loading view is shown until the load has completed, and the load ends
\* in the dashboard with the loaded profile as the document, or in the
\* landing view without a document.
C21_LoadingUntilLoaded ==
    /\ urlLoad \in {"mounted", "loading"} => view = "LOADING"
    /\ lastCall.op = "checkUrlForReport.then" =>
          \/ view = "DASHBOARD" /\ inspection # NoProfile
          \/ view = "LANDING" /\ inspection = NoProfile

-----------------------------------------------------------------------------
(* The views and the document (C27) *)

ViewsHaveDocument ==
    /\ view \in {"DASHBOARD", "SECTION_DETAIL", "REPORT"} => inspection # NoProfile
    /\ view = "SECTION_DETAIL" => activeSectionId \in SectionIds(inspection)

DocumentStays == inspection # NoProfile => inspection' # NoProfile

\* C27: the dashboard, the section detail and the report are active only
\* while a document exists; in the section detail activeSectionId names a
\* section of the current document; and a document, once set, is never
\* reset to none.
C27_ViewsHaveDocument == []ViewsHaveDocument /\ [][DocumentStays]_vars

\* A section of a second inspection is open, the first one having been left
C27_Witness ==
    /\ view = "SECTION_DETAIL"
    /\ inspection # NoProfile
    /\ inspection.id = 2
    /\ lastCall.op = "selectSection"

-----------------------------------------------------------------------------
(* A result lands on the profile it was computed for (C25) *)

\* The save wrote its keys into the document
KeysApplied ==
    /\ save.pc = "returned"
    /\ save'.pc = "idle"
    /\ inspection' # inspection

\* C25: the keys a save returns are applied to the profile the save was
\* started on, also when a new inspection was started in between.
C25_ResultOnItsProfile ==
    [][KeysApplied => inspection.id = save.report.id]_vars

-----------------------------------------------------------------------------
(* The analyzing indicator (C26) *)

\* C26: whenever an image analysis has started and not yet completed,
\* analyzingItemId is non-null and names an item with an analysis in flight,
\* also when the analyses of two items overlap.
C26_IndicatorTracksAnalyses ==
    analyses # {} => analyzingItemId \in {a.itemId : a \in analyses}

-----------------------------------------------------------------------------
(* Completions of awaited calls keep the edits made meanwhile (C24) *)

Completions ==
    {"processImageAnalysis", "handleAddSection.then", "handleAddItem.then",
     "handleSaveReport.then"}

IsPrefix(s, t) == Len(s) <= Len(t) /\ \A i \in DOMAIN s : t[i] = s[i]

\* Everything the user can have edited in the item is as it was, the notes
\* being kept with at most a note of the analysis after them
ItemKept(before, after) ==
    /\ after = [before EXCEPT !.notes = after.notes]
    /\ IsPrefix(before.notes, after.notes)

SectionKept(before, after) ==
    /\ after = [before EXCEPT !.items = after.items]
    /\ Len(after.items) >= Len(before.items)
    /\ \A j \in DOMAIN before.items : ItemKept(before.items[j], after.items[j])

\* C24: when an awaited call completes (image analysis, add section, add
\* items, save), its result is applied to the document as the user has edited
\* it meanwhile: every status, note, option, visibility and photo of the
\* document of that moment is in the document after the completion, with the
\* result added.
C24_NoEditLost ==
    [][lastCall'.op \in Completions /\ inspection # NoProfile =>
          /\ inspection' = [inspection EXCEPT
                               !.sections = inspection'.sections,
                               !.savedReportId = inspection'.savedReportId,
                               !.shortId = inspection'.shortId]
          /\ Len(inspection'.sections) >= Len(inspection.sections)
          /\ \A k \in DOMAIN inspection.sections :
                SectionKept(inspection.sections[k], inspection'.sections[k])]_vars

\* The items asked for have arrived after the user, waiting for them, set
\* the status of the first item
C24_Witness ==
    /\ steps = 2
    /\ lastCall.op = "handleAddItem.then"
    /\ inspection # NoProfile
    /\ Len(inspection.sections[1].items) = 2
    /\ inspection.sections[1].items[1].status = "attention"
    /\ inspection.sections[1].items[2].id[1] = "item-added"

-----------------------------------------------------------------------------
(* Statuses only move forward in the section detail (C29) *)

\* The step neither hid nor showed an item, and appended none
SameItemsShown ==
    /\ DOMAIN inspection'.sections = DOMAIN inspection.sections
    /\ \A k \in DOMAIN inspection.sections :
          /\ DOMAIN inspection'.sections[k].items = DOMAIN inspection.sections[k].items
          /\ \A j \in DOMAIN inspection.sections[k].items :
                IsHidden(inspection'.sections[k].items[j])
                    = IsHidden(inspection.sections[k].items[j])

\* C29: under the operations the section detail offers, an item whose status
\* has been set never becomes untouched again, a section that is completed
\* or in-progress never becomes pending again, and calculateProgress does not
\* decrease under a step that changes no visibility and appends no item.
C29_StatusMovesForward ==
    [][inspection # NoProfile /\ inspection' # NoProfile =>
          /\ \A k \in DOMAIN inspection.sections :
                /\ inspection.sections[k].status # "pending" =>
                       inspection'.sections[k].status # "pending"
                /\ \A j \in DOMAIN inspection.sections[k].items :
                       Touched(inspection.sections[k].items[j]) =>
                           Touched(inspection'.sections[k].items[j])
          /\ SameItemsShown =>
                 CalculateProgress(inspection') >= CalculateProgress(inspection)]_vars

\* Items were appended to a completed section, and the status of its first
\* item has been set again: the section is in-progress, half of it inspected
C29_Witness ==
    /\ steps = 3
    /\ lastCall.op = "updateItemStatus"
    /\ inspection # NoProfile
    /\ Len(inspection.sections[1].items) = 2
    /\ inspection.sections[1].items[1].id = lastCall.itemId
    /\ inspection.sections[1].items[1].status = "moderate"
    /\ inspection.sections[1].items[2].id[1] = "item-added"
    /\ inspection.sections[1].status = "in-progress"
    /\ CalculateProgress(inspection) = 50

-----------------------------------------------------------------------------
(* The loading view is left (C28) *)

LoadingLeft == view \in {"DASHBOARD", "LANDING", "SETUP"}

InspectionStarted ==
    /\ lastCall.op = "handleStartInspection.then"
    /\ view = "DASHBOARD"
    /\ inspection # NoProfile

\* C28: the external calls returning or throwing, every entry into the
\* loading view is followed by the dashboard, the landing view or the setup
\* view, and every start of an inspection ends in the dashboard with a
\* document.
C28_LoadingIsLeft ==
    /\ (view = "LOADING") ~> LoadingLeft
    /\ (planCall = "generating") ~> InspectionStarted

\* The generation having failed, the inspection has started on the fixed
\* checklist
C28_Witness ==
    /\ InspectionStarted
    /\ inspection.sections = FallbackPlan

=============================================================================
